---- MODULE Spec2Model ----
(***************************************************************************)
(* Model of the bill OCR server (src/server/ocr_api.py): the retried       *)
(* remote calls of the inference client, the per-page two-step workflow    *)
(* (process_page_with_thread) run concurrently behind the semaphore `sem`, *)
(* the grouping of pages (chunk_consecutive_by_type), the merge of the     *)
(* per-page extraction data (ocr_endpoint), the three endpoints /ocr,      *)
(* /ocr-stream and /ocr/stream with their event streams, the parsing of a  *)
(* model reply into a JSON object, the extraction record a call returns,   *)
(* delete_thread request by request, the grouping and merge of one         *)
(* document's page results (SpecPipeline) and the rendering of a page      *)
(* (b64_png_from_page, SpecRender).                                        *)
(*                                                                         *)
(* Time is counted in ticks of 1/2560 s, so that 1.25 s, 0.1 s, 2.0 s and  *)
(* the poll delays 0.1 * 1.5^k are all whole numbers.                      *)
(***************************************************************************)
EXTENDS Integers, Sequences, FiniteSets, TLC

TicksPerSecond == 256 * 10

\* ---------------------------------------------------------------- config
RETRY_MAX == 4
RETRY_BASE_DELAY == (5 * TicksPerSecond) \div 4
MAX_CONCURRENCY == 2

\* ---------------------------------------------------------------- bounds
\* Pending statuses one run may report before it must reach another status.
MaxPolls == 9

VARIABLES
  call,      \* retried call under observation (one of CallKinds)
  attempt,   \* loop variable `attempt` of the call's retry loop (0-based)
  log,       \* responses received in the current retry loop, in order
  waits,     \* backoff sleeps taken in the current retry loop, in order
  cstate,    \* "calling" | "returned" | "raised"
  warnings,  \* logger.warning / logger.error calls made in the current retry loop
  polls,     \* pending statuses observed by the poll loop of this run
  delay,     \* local `delay` of the poll loop
  pollWaits  \* poll sleeps taken by the poll loop, in order

retryVars == <<call, attempt, log, waits, cstate, warnings, polls, delay, pollWaits>>

VARIABLES
  nPath,     \* "thread" (process_page_with_thread) | "chat" (classify_pages)
  nIndex,    \* the page index the page task was started with
  nReply,    \* the parsed classification reply
  nOut,      \* the PageResult produced (NoResult: none)
  nState     \* "ready" | "returned" | "raised"

normVars == <<nPath, nIndex, nReply, nOut, nState>>

VARIABLES
  gPages,    \* argument of chunk_consecutive_by_type: the page dicts in order
  gGroups,   \* its return value: the dict's items in insertion order
  gState     \* "ready" | "returned"

groupVars == <<gPages, gGroups, gState>>

VARIABLES
  mData,     \* extraction_data_per_page (index p + 1 holds page p's data)
  mFlat,     \* pages_flat of the group being combined
  mMerged,   \* combined_extraction_data of the group
  mAfter,    \* extraction_data_per_page as the merge loop leaves it
  mState     \* "ready" | "returned"

mergeVars == <<mData, mFlat, mMerged, mAfter, mState>>

VARIABLES
  assistants,      \* CLASSIFY_ASSISTANT_ID and EXTRACT_ASSISTANT_ID are both set
  sem,             \* free slots of the semaphore `sem`
  FILES_BY_THREAD, \* thread id -> file ids uploaded under it
  pc,              \* where each page task stands in process_page_with_thread
  thread_id,       \* local thread_id of each page task (0: None)
  classification_result, \* local classification_result (NoReply: not yet set)
  doc_type,        \* local doc_type ("-": not yet set)
  result,          \* the PageResult each task returns (NoResult: none yet)
  extraction,      \* the extraction data each task returns
  ret,             \* "-" | "return" | "raise": how the call ends after `finally`
  failed,          \* an exception was raised inside the task's try block
  deleteCalls      \* calls of delete_thread made by each task

pageVars == <<assistants, sem, FILES_BY_THREAD, pc, thread_id, classification_result,
              doc_type, result, extraction, ret, failed, deleteCalls>>

VARIABLES
  endpoint,        \* "ocr" | "ocr-stream" | "ocr/stream": the route of the request
  decodable,       \* fitz.open accepts the uploaded bytes
  num_pages,       \* len(b64_images)
  spc,             \* "open" | "tasks" | "closed": where the request handler stands
  results_queue,   \* results_queue of /ocr-stream
  arrivals,        \* page indices in the order of their results_queue.put
  completed_pages, \* local completed_pages of /ocr-stream
  seq_i,           \* loop variable i of the page loop of /ocr/stream
  events,          \* what the stream has yielded so far, in order
  response         \* the HTTP answer when it is not a stream (NoResponse: none)

endpointVars == <<endpoint, decodable, num_pages, spc, results_queue, arrivals,
                  completed_pages, seq_i, events, response>>

VARIABLES
  pPath,     \* "thread" (run_thread_with_assistant) | "chat" (openai_json_response)
  pText,     \* the reply text handled last, as a sequence of tokens
  pValue,    \* the value returned ("-": none)
  pStage,    \* the stage of the chain that ended the handling of pText (0: none yet)
  pAttempt,  \* the iteration of the call's loop that receives the reply (0-based)
  pWaits,    \* sleeps taken after the reply was handled, in order
  pState     \* "calling" | "returned" | "raised" | "retrying" (the loop goes on)

parseVars == <<pPath, pText, pValue, pStage, pAttempt, pWaits, pState>>

VARIABLES
  xPath,     \* "thread" (process_page_with_thread) | "group" (extract_for_group)
  xSchema,   \* whether get_document_schema finds a schema for the doc_type
  xPages,    \* the page indices of the call (one index on the thread path)
  xReply,    \* the parsed extraction reply of the remote service
  xOut,      \* the extraction record the call returns
  xState     \* "ready" | "returned"

extractVars == <<xPath, xSchema, xPages, xReply, xOut, xState>>

VARIABLES
  page_results,              \* the PageResult dicts of the document, in page order
  extraction_data_per_page,  \* the extraction record of each page (index p + 1)
  grouped_results,           \* the ExtractedGroup list built from them
  plState                    \* "ready" | "returned" | "raised"

pipelineVars == <<page_results, extraction_data_per_page, grouped_results, plState>>

VARIABLES
  sizes,     \* len(pix.tobytes("png")) of the page at each resolution
  tried,     \* the resolutions rendered so far, in order
  data_len,  \* len(data) of the raster currently held
  rState     \* "ready" | "rendered" | "returned"

renderVars == <<sizes, tried, data_len, rState>>

vars == <<retryVars, normVars, groupVars, mergeVars, pageVars, endpointVars, parseVars, extractVars, pipelineVars, renderVars>>

\* ------------------------------------------------------------- responses
\* A response of the remote service: an HTTP status (code 0: the request
\* raised a transport-level exception instead) and, for a status check
\* answered 200, the run's status; for a chat completion, the reply kind.
TransportError == [code |-> 0, run |-> "-"]
Http(c) == [code |-> c, run |-> "-"]
HttpCodes == {200, 201, 400, 404, 429, 500, 502, 503, 504}
TransientCodes == {429, 500, 502, 503, 504}
RunStatuses == {"queued", "in_progress", "requires_action", "incomplete",
                "completed", "failed", "cancelled", "expired"}
PlainResponses == {Http(c) : c \in HttpCodes} \cup {TransportError}
StatusResponses == {[code |-> 200, run |-> s] : s \in RunStatuses}
                   \cup {Http(c) : c \in HttpCodes \ {200}} \cup {TransportError}
ChatResponses == {[code |-> 200, run |-> "json"], [code |-> 200, run |-> "garbage"]}
                 \cup {Http(c) : c \in HttpCodes \ {200, 201}} \cup {TransportError}

IsTransient(resp) == resp.code \in TransientCodes
IsException(resp) == resp = TransportError

\* delay = RETRY_BASE_DELAY * (2 ** attempt)
Backoff(a) == RETRY_BASE_DELAY * (2 ^ a)

\* What one iteration of a retry loop's try-body does with a response:
\*   "return"  leaves the loop normally (return / break)
\*   "sleep"   await asyncio.sleep(backoff); continue
\*   "fall"    reaches the end of the iteration without sleeping
\*   "throw"   raises inside the try block
\*   "warn_return"  logs a warning and returns
\*   "pending" (status check) sleeps the poll delay and polls again

create_openai_thread_body(resp, a) ==
  IF IsException(resp) THEN "throw"
  ELSE IF resp.code \in {200, 201} THEN "return"
  ELSE IF resp.code \in TransientCodes
       THEN (IF a < RETRY_MAX - 1 THEN "sleep" ELSE "fall")
  ELSE "throw"

run_create_body(resp, a) ==
  IF IsException(resp) THEN "throw"
  ELSE IF resp.code \in {200, 201} THEN "return"
  ELSE IF resp.code \in TransientCodes /\ a < RETRY_MAX - 1 THEN "sleep"
  ELSE "throw"

\* A status check that polls on for queued and in_progress only and raises
\* for every other status but completed.
status_check_body_known_only(resp, a) ==
  IF IsException(resp) THEN "throw"
  ELSE IF resp.code = 200
       THEN (IF resp.run = "completed" THEN "return"
             ELSE IF resp.run \in {"queued", "in_progress"} THEN "pending"
             ELSE "throw")
  ELSE IF resp.code \in TransientCodes /\ a < RETRY_MAX - 1 THEN "sleep"
  ELSE "throw"

status_check_body(resp, a) ==
  IF IsException(resp) THEN "throw"
  ELSE IF resp.code = 200
       THEN (IF resp.run = "completed" THEN "return"
             ELSE IF resp.run \in {"failed", "cancelled", "expired"} THEN "throw"
             ELSE "pending")
  ELSE IF resp.code \in TransientCodes /\ a < RETRY_MAX - 1 THEN "sleep"
  ELSE "throw"

fetch_messages_body(resp, a) ==
  IF IsException(resp) THEN "throw"
  ELSE IF resp.code = 200 THEN "return"
  ELSE IF resp.code \in TransientCodes /\ a < RETRY_MAX - 1 THEN "sleep"
  ELSE "throw"

send_message_body(resp, a) ==
  IF IsException(resp) THEN "throw"
  ELSE IF resp.code \in {200, 201} THEN "return"
  ELSE IF resp.code \in TransientCodes /\ a < RETRY_MAX - 1 THEN "sleep"
  ELSE "throw"

\* A delete_thread that forgets the 404 case.
delete_thread_body_no404(resp, a) ==
  IF IsException(resp) THEN "throw"
  ELSE IF resp.code \in {200} THEN "return"
  ELSE IF resp.code \in TransientCodes
       THEN (IF a < RETRY_MAX - 1 THEN "sleep" ELSE "fall")
  ELSE "warn_return"

delete_thread_body(resp, a) ==
  IF IsException(resp) THEN "throw"
  ELSE IF resp.code \in {200, 404} THEN "return"
  ELSE IF resp.code \in TransientCodes
       THEN (IF a < RETRY_MAX - 1 THEN "sleep" ELSE "fall")
  ELSE "warn_return"

\* except Exception as e: if attempt < RETRY_MAX - 1: sleep; continue / else: raise
except_handler(sig, a) ==
  IF sig = "throw"
  THEN (IF a < RETRY_MAX - 1 THEN "sleep" ELSE "raise")
  ELSE sig

\* A delete_thread whose except branch re-raises after the last attempt.
delete_thread_handler_reraises(sig, a) ==
  IF sig = "throw"
  THEN (IF a < RETRY_MAX - 1 THEN "sleep" ELSE "raise")
  ELSE sig

\* delete_thread: the except branch never raises (it logs and returns).
delete_thread_handler(sig, a) ==
  IF sig = "throw"
  THEN (IF a < RETRY_MAX - 1 THEN "sleep" ELSE "warn_return")
  ELSE sig

RetryLoopCalls == {"create_thread", "send_message", "run_create", "status_check",
                   "fetch_messages", "delete_thread"}
SingleShotCalls == {"upload_file", "delete_file"}
CallKinds == RetryLoopCalls \cup SingleShotCalls \cup {"chat_completion"}

Responses(kind) ==
  IF kind = "status_check" THEN StatusResponses
  ELSE IF kind = "chat_completion" THEN ChatResponses
  ELSE PlainResponses

LoopBody(kind, resp, a) ==
  CASE kind = "create_thread"  -> create_openai_thread_body(resp, a)
    [] kind = "send_message"   -> send_message_body(resp, a)
    [] kind = "run_create"     -> run_create_body(resp, a)
    [] kind = "status_check"   -> status_check_body(resp, a)
    [] kind = "fetch_messages" -> fetch_messages_body(resp, a)
    [] kind = "delete_thread"  -> delete_thread_body(resp, a)

\* The signal of one whole loop iteration: the try-body, then the except
\* clause around it, then the end of the for loop (its else clause, or the
\* statement after the loop) when the last iteration falls through.
LoopSignal(kind, resp, a) ==
  LET body == LoopBody(kind, resp, a)
      sig  == IF kind = "delete_thread" THEN delete_thread_handler(body, a)
              ELSE except_handler(body, a)
  IN  IF sig = "fall"
      THEN (IF a < RETRY_MAX - 1 THEN "next"
            ELSE IF kind = "delete_thread" THEN "return" ELSE "raise")
      ELSE sig

\* logger.warning / logger.error calls of one loop iteration.
LoopWarnings(kind, resp, a) ==
  LET body == LoopBody(kind, resp, a)
      inBody == IF body \in {"sleep", "warn_return"} THEN 1
                ELSE IF body = "throw" /\ ~IsException(resp) /\ resp.code # 200 THEN 1
                ELSE 0
      inHandler == IF body # "throw" THEN 0
                   ELSE IF a < RETRY_MAX - 1 \/ kind = "delete_thread" THEN 1
                   ELSE 0
  IN  inBody + inHandler

MAX_DELAY == 2 * TicksPerSecond
POLL_START_DELAY == TicksPerSecond \div 10
\* A poll delay that grows without the cap.
NextPollDelay_uncapped(d) == (d * 3) \div 2

\* delay = min(delay * 1.5, max_delay)
NextPollDelay(d) == IF (d * 3) \div 2 < MAX_DELAY THEN (d * 3) \div 2 ELSE MAX_DELAY

\* Each specification below exercises one part of the program; the state of
\* the other parts stays at these values.
IdleRetry ==
  /\ call = "-" /\ attempt = 0 /\ log = <<>> /\ waits = <<>> /\ cstate = "-"
  /\ warnings = 0 /\ polls = 0 /\ delay = 0 /\ pollWaits = <<>>
IdleNorm ==
  /\ nPath = "-" /\ nIndex = 0 /\ nReply = 0 /\ nOut = 0 /\ nState = "-"
IdlePages ==
  /\ assistants = FALSE /\ sem = 0 /\ FILES_BY_THREAD = <<>> /\ pc = <<>>
  /\ thread_id = <<>> /\ classification_result = <<>> /\ doc_type = <<>>
  /\ result = <<>> /\ extraction = <<>> /\ ret = <<>> /\ failed = <<>>
  /\ deleteCalls = <<>>
IdleEndpoint ==
  /\ endpoint = "-" /\ decodable = FALSE /\ num_pages = 0 /\ spc = "-"
  /\ results_queue = <<>> /\ arrivals = <<>> /\ completed_pages = 0 /\ seq_i = 0
  /\ events = <<>> /\ response = <<>>
IdleParse ==
  /\ pPath = "-" /\ pText = <<>> /\ pValue = "-" /\ pStage = 0 /\ pAttempt = 0
  /\ pWaits = <<>> /\ pState = "-"
IdleExtract ==
  /\ xPath = "-" /\ xSchema = FALSE /\ xPages = <<>> /\ xReply = <<>>
  /\ xOut = <<>> /\ xState = "-"
IdlePipeline ==
  /\ page_results = <<>> /\ extraction_data_per_page = <<>>
  /\ grouped_results = <<>> /\ plState = "-"
IdleRender ==
  /\ sizes = <<>> /\ tried = <<>> /\ data_len = 0 /\ rState = "-"
IdleGroup ==
  /\ gPages = <<>> /\ gGroups = <<>> /\ gState = "-"
IdleMerge ==
  /\ mData = <<>> /\ mFlat = <<>> /\ mMerged = <<>> /\ mAfter = <<>>
  /\ mState = "-"

\* ------------------------------------------------- SpecRetry: one call
InitCall(kind) ==
  /\ call = kind
  /\ attempt = 0
  /\ log = <<>>
  /\ waits = <<>>
  /\ cstate = "calling"
  /\ warnings = 0
  /\ polls = 0
  /\ delay = POLL_START_DELAY
  /\ pollWaits = <<>>

\* One iteration of `for attempt in range(RETRY_MAX)` of a retried call.
LoopAttempt(resp) ==
  /\ cstate = "calling"
  /\ call \in RetryLoopCalls
  /\ resp \in Responses(call)
  /\ attempt < RETRY_MAX
  /\ LET sig == LoopSignal(call, resp, attempt) IN
     /\ sig = "pending" => polls < MaxPolls
     /\ warnings' = IF sig = "pending" THEN 0
                    ELSE warnings + LoopWarnings(call, resp, attempt)
     /\ IF sig = "pending"
        THEN \* await asyncio.sleep(delay); delay = min(...); break -> while True
             /\ pollWaits' = Append(pollWaits, delay)
             /\ delay' = NextPollDelay(delay)
             /\ polls' = polls + 1
             /\ attempt' = 0
             /\ log' = <<>>
             /\ waits' = <<>>
             /\ cstate' = cstate
        ELSE /\ log' = Append(log, resp)
             /\ waits' = IF sig = "sleep" THEN Append(waits, Backoff(attempt)) ELSE waits
             /\ attempt' = IF sig \in {"sleep", "next"} THEN attempt + 1 ELSE attempt
             /\ cstate' = CASE sig \in {"return", "warn_return"} -> "returned"
                            [] sig = "raise" -> "raised"
                            [] OTHER -> cstate
             /\ UNCHANGED <<polls, delay, pollWaits>>
  /\ UNCHANGED <<call, normVars, groupVars, mergeVars, pageVars, endpointVars, parseVars, extractVars, pipelineVars, renderVars>>

\* openai_json_response: for attempt in range(1, RETRY_MAX + 1); every
\* exception (API error, transport, unparseable text) is caught, logged and
\* followed by asyncio.sleep(RETRY_BASE_DELAY * 2 ** (attempt - 1)).
ChatAttempt(resp) ==
  /\ cstate = "calling"
  /\ call = "chat_completion"
  /\ resp \in ChatResponses
  /\ attempt < RETRY_MAX
  /\ log' = Append(log, resp)
  /\ IF resp.code = 200 /\ resp.run = "json"
     THEN /\ cstate' = "returned"
          /\ UNCHANGED <<attempt, waits, warnings>>
     ELSE /\ waits' = Append(waits, Backoff(attempt))
          /\ attempt' = attempt + 1
          /\ warnings' = warnings + 1
          /\ cstate' = IF attempt + 1 = RETRY_MAX THEN "raised" ELSE cstate
  /\ UNCHANGED <<call, polls, delay, pollWaits, normVars, groupVars,
               mergeVars, pageVars, endpointVars, parseVars, extractVars, pipelineVars, renderVars>>

\* _upload_image_data_url_get_file_id and _delete_openai_file: one request.
SingleShot(resp) ==
  /\ cstate = "calling"
  /\ call \in SingleShotCalls
  /\ resp \in PlainResponses
  /\ log' = Append(log, resp)
  /\ IF call = "upload_file"
     THEN /\ cstate' = IF resp.code = 200 THEN "returned" ELSE "raised"
          /\ warnings' = IF IsException(resp) \/ resp.code = 200 THEN warnings ELSE warnings + 1
     ELSE /\ cstate' = IF IsException(resp) THEN "raised" ELSE "returned"
          /\ warnings' = IF IsException(resp) \/ resp.code \in {200, 404}
                         THEN warnings ELSE warnings + 1
  /\ UNCHANGED <<call, attempt, waits, polls, delay, pollWaits, normVars, groupVars,
               mergeVars, pageVars, endpointVars, parseVars, extractVars, pipelineVars, renderVars>>

InitRetry ==
  (\E kind \in CallKinds : InitCall(kind)) /\ IdleNorm /\ IdleGroup /\ IdleMerge /\ IdlePages /\ IdleEndpoint /\ IdleParse /\ IdleExtract /\ IdlePipeline /\ IdleRender

NextRetry ==
  \/ \E resp \in StatusResponses \cup PlainResponses : LoopAttempt(resp)
  \/ \E resp \in ChatResponses : ChatAttempt(resp)
  \/ \E resp \in PlainResponses : SingleShot(resp)

SpecRetry == InitRetry /\ [][NextRetry]_vars

\* ------------------------------------------------------------ JSON values
\* A JSON value as json.loads returns it, or Absent for a key the object
\* does not have. Numbers are kept in hundredths (0.85 is 85, 1 is 100);
\* NaN and the infinities are the values json.loads gives for NaN, Infinity
\* and -Infinity. A list carries its elements in l.
JV(t, n, s, l) == [t |-> t, n |-> n, s |-> s, l |-> l]
Absent == JV("absent", 0, "", <<>>)
Null == JV("null", 0, "", <<>>)
Num(n) == JV("num", n, "", <<>>)
Str(s) == JV("str", 0, s, <<>>)
Bool(b) == JV("bool", IF b THEN 1 ELSE 0, "", <<>>)
Lst(l) == JV("list", 0, "", l)
JNaN == JV("nan", 0, "", <<>>)
JInf == JV("inf", 0, "", <<>>)
JNegInf == JV("ninf", 0, "", <<>>)

\* dict.get(key, default)
Get(v, default) == IF v = Absent THEN default ELSE v

\* Python floats: finite (in hundredths), nan, +inf, -inf.
Fin(n) == [k |-> "fin", n |-> n]
FNaN == [k |-> "nan", n |-> 0]
FInf == [k |-> "inf", n |-> 0]
FNegInf == [k |-> "ninf", n |-> 0]
Raised == [k |-> "raised", n |-> 0]

\* a < b on Python floats (every comparison with nan is False)
PyLt(a, b) ==
  CASE a.k = "nan" \/ b.k = "nan" -> FALSE
    [] a.k = "ninf" -> b.k # "ninf"
    [] a.k = "inf" -> FALSE
    [] b.k = "ninf" -> FALSE
    [] b.k = "inf" -> TRUE
    [] OTHER -> a.n < b.n
\* min(a, b) keeps a unless b < a; max(a, b) keeps a unless b > a
PyMin(a, b) == IF PyLt(b, a) THEN b ELSE a
PyMax(a, b) == IF PyLt(a, b) THEN b ELSE a

\* float(str): the strings the model uses
ParseFloatStr(s) ==
  CASE s = "0.85" -> Fin(85)
    [] s = "2" -> Fin(200)
    [] s = "-1" -> Fin(-100)
    [] s = "nan" -> FNaN
    [] OTHER -> Raised
\* float(v): ValueError / TypeError is Raised
PyFloat(v) ==
  CASE v.t = "num" -> Fin(v.n)
    [] v.t = "bool" -> Fin(100 * v.n)
    [] v.t = "nan" -> FNaN
    [] v.t = "inf" -> FInf
    [] v.t = "ninf" -> FNegInf
    [] v.t = "str" -> ParseFloatStr(v.s)
    [] OTHER -> Raised

\* int(v): truncation toward zero for numbers; int(str) accepts integer
\* literals only. The result is [k |-> "fin", n |-> the integer] or Raised.
TruncHundredths(n) == IF n >= 0 THEN n \div 100 ELSE -((-n) \div 100)
ParseIntStr(s) ==
  CASE s = "2" -> Fin(2)
    [] s = "-1" -> Fin(-1)
    [] OTHER -> Raised
PyInt(v) ==
  CASE v.t = "num" -> Fin(TruncHundredths(v.n))
    [] v.t = "bool" -> Fin(v.n)
    [] v.t = "str" -> ParseIntStr(v.s)
    [] OTHER -> Raised

\* Python truthiness of a JSON value (for `x or i`)
Truthy(v) ==
  CASE v.t = "absent" \/ v.t = "null" -> FALSE
    [] v.t = "num" \/ v.t = "bool" -> v.n # 0
    [] v.t = "str" -> v.s # ""
    [] v.t = "list" -> v.l # <<>>
    [] OTHER -> TRUE

TYPE_ORDER == <<"TaxInvoice", "EWayBill", "LorryReceipt", "PackingList",
                "DeliveryChallan", "PurchaseOrder", "CreditNote", "DebitNote",
                "PaymentAdvice", "ZetwerkInspectionReport", "MaterialReport",
                "WeighmentSlip", "TestCertificate", "GatePass", "BillOfLading",
                "QuotationProforma", "Unknown">>
\* doc_type in TYPE_ORDER (list membership by ==: only an equal string is in)
InTypeOrder(v) == v.t = "str" /\ \E i \in 1..Len(TYPE_ORDER) : TYPE_ORDER[i] = v.s

\* ------------------------------------------------- classification replies
\* A parsed classification reply: a JSON object with the three fields the
\* code reads (Absent when the object lacks the key), or a JSON value that
\* is not an object (kind "array" / "scalar"), on which .get raises.
Reply(kind, d, c, i) == [kind |-> kind, doc_type |-> d, confidence |-> c, page_index |-> i]
NonObjectReplies == {Reply("array", Absent, Absent, Absent),
                     Reply("scalar", Absent, Absent, Absent)}

PageResult(i, d, c) == [page_index |-> i, doc_type |-> d, confidence |-> c]
\* PageResult(page_index=page_index, doc_type="Unknown", confidence=0.0)
DegradedResult(i) == PageResult(i, "Unknown", Fin(0))
NoResult == PageResult(-1, "-", Raised)

\* conf = max(0.0, min(1.0, conf)) without its lower bound
clamp_confidence_no_floor(conf) == PyMin(Fin(100), conf)

\* conf = max(0.0, min(1.0, conf))
clamp_confidence(conf) == PyMax(Fin(0), PyMin(Fin(100), conf))

\* try: conf = float(data.get("confidence", 0.0)) except Exception: conf = 0.0
confidence_of(c) ==
  LET f == PyFloat(Get(c, Num(0)))
  IN  clamp_confidence(IF f = Raised THEN Fin(0) ELSE f)

\* process_page_with_thread, lines 708-710:
\*   doc_type = classification_result.get("doc_type", "Unknown")
\*   if doc_type not in TYPE_ORDER: doc_type = "Unknown"
\* "raised" when the reply is not an object (.get raises AttributeError).
thread_doc_type(cls) ==
  IF cls.kind # "object" THEN "raised"
  ELSE LET d == Get(cls.doc_type, Str("Unknown"))
       IN  IF InTypeOrder(d) THEN d.s ELSE "Unknown"

\* process_page_with_thread, lines 738-751: the PageResult built from the
\* classification reply, or NoResult when int(...) raises.
thread_page_result(page_index, cls, dtype) ==
  LET conf == confidence_of(cls.confidence)
      idx  == PyInt(Get(cls.page_index, Num(100 * page_index)))
  IN  IF idx = Raised THEN NoResult
      ELSE PageResult(idx.n, dtype, conf)

\* classify_pages._one, lines 779-794 (brief_summary and key_hints are
\* passed through and not modelled): the PageResult, or NoResult when the
\* task raises.
classify_one(i, obj) ==
  LET d0 == IF obj.kind = "object" THEN obj.doc_type ELSE Absent
      dtype == IF InTypeOrder(d0) THEN d0.s ELSE "Unknown"
      f == IF obj.kind = "object" THEN PyFloat(Get(obj.confidence, Num(0))) ELSE Raised
      conf == clamp_confidence(IF f = Raised THEN Fin(0) ELSE f)
      pi == IF Truthy(Get(obj.page_index, Num(100 * i)))
            THEN Get(obj.page_index, Num(100 * i)) ELSE Num(100 * i)
      idx == PyInt(pi)
  IN  IF obj.kind # "object" \/ idx = Raised THEN NoResult
      ELSE PageResult(idx.n, dtype, conf)

\* ------------------------------- SpecNorm: one classification reply
MaxIndex == 1
ConfidenceValues ==
  {Absent, Null, Num(-50), Num(0), Num(85), Num(100), Num(150), JNaN, JInf,
   JNegInf, Bool(TRUE), Str("0.85"), Str("2"), Str("-1"), Str("nan"),
   Str("high"), Lst(<<>>)}
DocTypeValues ==
  {Absent, Null, Str("TaxInvoice"), Str("EWayBill"), Str("Unknown"),
   Str("Bogus"), Str("taxinvoice"), Num(100), Lst(<<1>>)}
PageIndexValues ==
  {Absent, Null, Num(0), Num(100), Num(170), Num(-100), Str("2"), Str("x"), JNaN}
ClassificationReplies ==
  {Reply("object", d, c, i) : d \in DocTypeValues, c \in ConfidenceValues,
                              i \in PageIndexValues}
  \cup NonObjectReplies

InitNorm ==
  /\ nPath \in {"thread", "chat"}
  /\ nIndex \in 0..MaxIndex
  /\ nReply \in ClassificationReplies
  /\ nOut = NoResult
  /\ nState = "ready"
  /\ IdleRetry /\ IdleGroup /\ IdleMerge /\ IdlePages /\ IdleEndpoint /\ IdleParse /\ IdleExtract /\ IdlePipeline /\ IdleRender

\* process_page_with_thread from the classification reply on (lines 708-768):
\* an exception in the try block gives the degraded result.
NormaliseThread ==
  /\ nState = "ready"
  /\ nPath = "thread"
  /\ LET d == thread_doc_type(nReply)
         r == IF d = "raised" THEN NoResult ELSE thread_page_result(nIndex, nReply, d)
     IN  nOut' = IF r = NoResult THEN DegradedResult(nIndex) ELSE r
  /\ nState' = "returned"
  /\ UNCHANGED <<nPath, nIndex, nReply, retryVars, groupVars, mergeVars, pageVars, endpointVars, parseVars, extractVars, pipelineVars, renderVars>>

\* classify_pages._one on the reply of openai_json_response
ClassifyOne ==
  /\ nState = "ready"
  /\ nPath = "chat"
  /\ nOut' = classify_one(nIndex, nReply)
  /\ nState' = IF classify_one(nIndex, nReply) = NoResult THEN "raised" ELSE "returned"
  /\ UNCHANGED <<nPath, nIndex, nReply, retryVars, groupVars, mergeVars, pageVars, endpointVars, parseVars, extractVars, pipelineVars, renderVars>>

NextNorm == NormaliseThread \/ ClassifyOne

SpecNorm == InitNorm /\ [][NextNorm]_vars

\* --------------------------------------------------------------- grouping
\* A dict of doc_type -> list of spans is kept as the sequence of its items
\* in insertion order (the order .items() iterates in).
HasKey(groups, t) == \E i \in 1..Len(groups) : groups[i].doc_type = t

\* groups[cur_type] = [cur_chunk]: the earlier spans of the type are lost.
setdefault_append_overwrite(groups, t, chunk) ==
  IF HasKey(groups, t)
  THEN [i \in 1..Len(groups) |->
          IF groups[i].doc_type = t
          THEN [groups[i] EXCEPT !.spans = <<chunk>>] ELSE groups[i]]
  ELSE Append(groups, [doc_type |-> t, spans |-> <<chunk>>])

\* groups.setdefault(cur_type, []).append(cur_chunk)
setdefault_append(groups, t, chunk) ==
  IF HasKey(groups, t)
  THEN [i \in 1..Len(groups) |->
          IF groups[i].doc_type = t
          THEN [groups[i] EXCEPT !.spans = Append(@, chunk)] ELSE groups[i]]
  ELSE Append(groups, [doc_type |-> t, spans |-> <<chunk>>])

\* for p in pages[1:]: ... ; then the final setdefault/append
RECURSIVE chunk_loop(_, _, _, _, _)
chunk_loop(pages, i, groups, cur_type, cur_chunk) ==
  IF i > Len(pages) THEN setdefault_append(groups, cur_type, cur_chunk)
  ELSE IF pages[i].doc_type = cur_type
       THEN chunk_loop(pages, i + 1, groups, cur_type,
                       Append(cur_chunk, pages[i].page_index))
       ELSE chunk_loop(pages, i + 1, setdefault_append(groups, cur_type, cur_chunk),
                       pages[i].doc_type, <<pages[i].page_index>>)

chunk_consecutive_by_type(pages) ==
  IF pages = <<>> THEN <<>>
  ELSE chunk_loop(pages, 2, <<>>, pages[1].doc_type, <<pages[1].page_index>>)

\* pages_flat = [i for span in spans for i in span]
RECURSIVE flatten_spans(_)
flatten_spans(spans) ==
  IF spans = <<>> THEN <<>> ELSE Head(spans) \o flatten_spans(Tail(spans))

\* ------------------------------------------- SpecGroup: one page sequence
MaxGroupPages == 4
GroupTypes == {"TaxInvoice", "EWayBill", "Unknown"}

InitGroup ==
  /\ \E n \in 0..MaxGroupPages : \E types \in [1..n -> GroupTypes] :
        gPages = [i \in 1..n |-> [doc_type |-> types[i], page_index |-> i - 1]]
  /\ gGroups = <<>>
  /\ gState = "ready"
  /\ IdleRetry /\ IdleNorm /\ IdleMerge /\ IdlePages /\ IdleEndpoint /\ IdleParse /\ IdleExtract /\ IdlePipeline /\ IdleRender

Chunk ==
  /\ gState = "ready"
  /\ gGroups' = chunk_consecutive_by_type(gPages)
  /\ gState' = "returned"
  /\ UNCHANGED <<gPages, retryVars, normVars, mergeVars, pageVars, endpointVars, parseVars, extractVars, pipelineVars, renderVars>>

NextGroup == Chunk

SpecGroup == InitGroup /\ [][NextGroup]_vars

\* ------------------------------------------------------------------ merge
\* A page's extraction data: a JSON object (f: its fields), or a reply that
\* parsed to something else. `if extraction_data_per_page[page_idx]` is
\* Python truthiness: an empty dict, None and an empty list are skipped.
Extraction(kind, f) == [kind |-> kind, f |-> f]
EmptyDict == [k \in {} |-> Null]
ExtractionTruthy(e) ==
  IF e.kind = "object" THEN DOMAIN e.f # {} ELSE e.kind = "array"
\* What a merge that raised leaves behind (no dict is produced).
MergeRaised == [k \in {"__raised__"} |-> Null]

\* The last two branches with `value is not None` as the only test: the
\* later page's value wins.
merge_value_last_wins(accv, value) ==
  IF value.t = "list" /\ accv.t = "list" THEN Lst(accv.l \o value.l)
  ELSE IF value # Null THEN value
  ELSE accv

\* lines 1036-1039, for a key that is already in combined_extraction_data
merge_value(accv, value) ==
  IF value.t = "list" /\ accv.t = "list" THEN Lst(accv.l \o value.l)
  ELSE IF value # Null /\ accv = Null THEN value
  ELSE accv

\* for key, value in page_data.items(): lines 1033-1039
merge_page(acc, page_data) ==
  [k \in DOMAIN acc \cup DOMAIN page_data |->
     IF k \notin DOMAIN page_data THEN acc[k]
     ELSE IF k \notin DOMAIN acc THEN page_data[k]
     ELSE merge_value(acc[k], page_data[k])]

\* for page_idx in pages_flat: lines 1030-1039
RECURSIVE combine_loop(_, _, _, _)
combine_loop(pages_flat, i, data, acc) ==
  IF i > Len(pages_flat) THEN acc
  ELSE LET page_idx == pages_flat[i] IN
       IF page_idx < Len(data) /\ ExtractionTruthy(data[page_idx + 1])
       THEN (IF data[page_idx + 1].kind # "object" THEN MergeRaised
             ELSE combine_loop(pages_flat, i + 1, data,
                               merge_page(acc, data[page_idx + 1].f)))
       ELSE combine_loop(pages_flat, i + 1, data, acc)

\* lines 1029-1040: the loop, then combined["pages_used"] = pages_flat
combine_extraction(pages_flat, data) ==
  LET acc == combine_loop(pages_flat, 1, data, EmptyDict)
  IN  IF acc = MergeRaised THEN MergeRaised
      ELSE [k \in DOMAIN acc \cup {"pages_used"} |->
              IF k = "pages_used" THEN Lst(pages_flat) ELSE acc[k]]

\* The same loop seen from the page records. `combined[key] = value` binds
\* the page's own object, so `combined[key].extend(value)` (line 1037)
\* extends the list of the page that first supplied the key. st.own[k] is
\* that page (as an index of data), st.data the page records so far.
alias_page(st, page_idx) ==
  LET page_data == st.data[page_idx + 1].f
      keys == DOMAIN st.acc \cup DOMAIN page_data
      extends(k) == /\ k \in DOMAIN page_data /\ k \in DOMAIN st.acc
                    /\ page_data[k].t = "list" /\ st.acc[k].t = "list"
      rebinds(k) == /\ k \in DOMAIN page_data
                    /\ \/ k \notin DOMAIN st.acc
                       \/ ~extends(k) /\ page_data[k] # Null /\ st.acc[k] = Null
      acc2 == merge_page(st.acc, page_data)
  IN  [acc  |-> acc2,
       own  |-> [k \in keys |-> IF rebinds(k) THEN page_idx + 1 ELSE st.own[k]],
       data |-> [q \in DOMAIN st.data |->
                   IF st.data[q].kind # "object" THEN st.data[q]
                   ELSE [st.data[q] EXCEPT !.f =
                           [k \in DOMAIN @ |->
                              IF k \in DOMAIN st.acc /\ extends(k) /\ st.own[k] = q
                              THEN acc2[k] ELSE @[k]]]]]

\* for page_idx in pages_flat: lines 1030-1039, up to the page that raises
RECURSIVE alias_loop(_, _, _)
alias_loop(pages_flat, i, st) ==
  IF i > Len(pages_flat) THEN st
  ELSE LET page_idx == pages_flat[i] IN
       IF page_idx < Len(st.data) /\ ExtractionTruthy(st.data[page_idx + 1])
       THEN (IF st.data[page_idx + 1].kind # "object" THEN st
             ELSE alias_loop(pages_flat, i + 1, alias_page(st, page_idx)))
       ELSE alias_loop(pages_flat, i + 1, st)

\* extraction_data_per_page once the loop of one group is over
alias_start(data) == [acc |-> EmptyDict, own |-> EmptyDict, data |-> data]
pages_after_merge(pages_flat, data) ==
  alias_loop(pages_flat, 1, alias_start(data)).data
\* the page whose list object combined[key] is, once the loop is over
list_owner(pages_flat, data) ==
  alias_loop(pages_flat, 1, alias_start(data)).own

\* ------------------------------------ SpecMerge: the records of one group
MaxMergePages == 3
MergeKeys == {"a", "items"}
AValues == {Absent, Null, Num(100), Num(500), Lst(<<1>>)}
ItemsValues == {Absent, Lst(<<1>>), Lst(<<2>>)}
Dict(a, items) ==
  [k \in {x \in MergeKeys : (IF x = "a" THEN a ELSE items) # Absent} |->
     IF k = "a" THEN a ELSE items]
MergeRecords == {Extraction("object", Dict(a, items)) : a \in AValues, items \in ItemsValues}

InitMerge ==
  /\ \E n \in 1..MaxMergePages :
        /\ mData \in [1..n -> MergeRecords]
        /\ mFlat = [i \in 1..n |-> i - 1]
  /\ mMerged = EmptyDict
  /\ mAfter = mData
  /\ mState = "ready"
  /\ IdleRetry /\ IdleNorm /\ IdleGroup /\ IdlePages /\ IdleEndpoint /\ IdleParse /\ IdleExtract /\ IdlePipeline /\ IdleRender

Combine ==
  /\ mState = "ready"
  /\ mMerged' = combine_extraction(mFlat, mData)
  /\ mAfter' = pages_after_merge(mFlat, mData)
  /\ mState' = "returned"
  /\ UNCHANGED <<mData, mFlat, retryVars, normVars, groupVars, pageVars, endpointVars, parseVars, extractVars, pipelineVars, renderVars>>

NextMerge == Combine

SpecMerge == InitMerge /\ [][NextMerge]_vars

\* ------------------------------------------------------- reply parsing
\* A reply text is a sequence of tokens:
\*   "ws"     whitespace            "bom"    U+FEFF
\*   "obj"    a valid JSON object   "arr"    a valid JSON array
\*   "badobj" {...} that is not valid JSON
\*   "junk"   prose                 "fence"  ``` (with or without json)
Tokens == {"ws", "bom", "obj", "arr", "badobj", "junk", "fence"}
Braced == {"obj", "badobj"}

RECURSIVE lstrip(_, _)
lstrip(t, chars) ==
  IF t # <<>> /\ Head(t) \in chars THEN lstrip(Tail(t), chars) ELSE t
RECURSIVE rstrip(_, _)
rstrip(t, chars) ==
  IF t # <<>> /\ t[Len(t)] \in chars THEN rstrip(SubSeq(t, 1, Len(t) - 1), chars) ELSE t

\* json.loads: one JSON value with optional whitespace around it, else
\* JSONDecodeError (a leading BOM is an error too)
json_loads(t) ==
  LET core == rstrip(lstrip(t, {"ws"}), {"ws"})
  IN  IF Len(core) = 1 /\ core[1] \in {"obj", "arr"} THEN core[1] ELSE "JSONDecodeError"

\* cleaned = content.strip().lstrip("﻿")
cleaned(t) == lstrip(rstrip(lstrip(t, {"ws"}), {"ws"}), {"bom"})

\* The match of ```(?:json)?\s*(\{.*?\})\s*``` that starts at the fence
\* t[i]: its group, or <<>> without a match. The group runs from the
\* first { after the fence and whitespace to the first } that only
\* whitespace separates from a fence.
closes_at(t, k) ==
  \E m \in k + 1..Len(t) : t[m] = "fence" /\ \A n \in k + 1..m - 1 : t[n] = "ws"
match_at(t, i) ==
  LET after == {j \in i + 1..Len(t) : t[j] # "ws"}
  IN  IF after = {} THEN <<>>
      ELSE LET j == CHOOSE x \in after : \A y \in after : x <= y
               ends == {k \in j..Len(t) : t[k] \in Braced /\ closes_at(t, k)}
           IN  IF t[j] \notin Braced \/ ends = {} THEN <<>>
               ELSE SubSeq(t, j, CHOOSE x \in ends : \A y \in ends : x <= y)
\* re.search(..., content, re.DOTALL): the leftmost match
re_search(t) ==
  LET starts == {i \in 1..Len(t) : t[i] = "fence" /\ match_at(t, i) # <<>>}
  IN  IF starts = {} THEN <<>>
      ELSE match_at(t, CHOOSE x \in starts : \A y \in starts : x <= y)

Parsed(value, stage) == [value |-> value, stage |-> stage]
\* lines 485-504 and 622-646: the nested try blocks around json.loads
parse_reply(t) ==
  IF json_loads(t) # "JSONDecodeError" THEN Parsed(json_loads(t), 1)
  ELSE IF json_loads(cleaned(t)) # "JSONDecodeError" THEN Parsed(json_loads(cleaned(t)), 2)
  ELSE IF re_search(t) # <<>> /\ json_loads(re_search(t)) # "JSONDecodeError"
       THEN Parsed(json_loads(re_search(t)), 3)
  ELSE Parsed("malformed", 4)

\* ----------------------------------- SpecParse: one reply text of a call
MaxTextLen == 4
Texts == UNION {[1..n -> Tokens] : n \in 0..MaxTextLen}

InitParse ==
  /\ \/ pPath = "thread" /\ pAttempt = 0
     \/ pPath = "chat" /\ pAttempt \in 0..RETRY_MAX - 1
  /\ pText = <<>> /\ pValue = "-" /\ pStage = 0 /\ pWaits = <<>>
  /\ pState = "calling"
  /\ IdleRetry /\ IdleNorm /\ IdleGroup /\ IdleMerge /\ IdlePages /\ IdleEndpoint
  /\ IdleExtract /\ IdlePipeline /\ IdleRender

\* run_thread_with_assistant from line 464 on, for a run whose assistant
\* message has one text block: the value, or HTTPException(502) raised
\* outside every retry loop
ParseThreadReply(text) ==
  /\ pState = "calling" /\ pPath = "thread"
  /\ pText' = text
  /\ pStage' = parse_reply(text).stage
  /\ IF parse_reply(text).value # "malformed"
     THEN pValue' = parse_reply(text).value /\ pState' = "returned"
     ELSE pValue' = pValue /\ pState' = "raised"
  /\ UNCHANGED <<pPath, pAttempt, pWaits>>
  /\ UNCHANGED <<retryVars, normVars, groupVars, mergeVars, pageVars, endpointVars, extractVars, pipelineVars, renderVars>>

\* One iteration of the loop of openai_json_response on a completion that
\* came back (lines 597-667): an empty text is replaced by a JSON object;
\* the JSONDecodeError of a malformed text is re-raised inside the try
\* block, caught at line 647 and followed by the sleep of line 664
ParseChatReply(text) ==
  /\ pState = "calling" /\ pPath = "chat"
  /\ LET t == IF text = <<>> THEN <<"obj">> ELSE text
         r == parse_reply(t)
     IN  /\ pText' = t
         /\ pStage' = r.stage
         /\ IF r.value # "malformed"
            THEN pValue' = r.value /\ pState' = "returned" /\ UNCHANGED pWaits
            ELSE /\ pValue' = pValue
                 /\ pWaits' = Append(pWaits, Backoff(pAttempt))
                 /\ pState' = IF pAttempt + 1 = RETRY_MAX THEN "raised" ELSE "retrying"
  /\ UNCHANGED <<pPath, pAttempt>>
  /\ UNCHANGED <<retryVars, normVars, groupVars, mergeVars, pageVars, endpointVars, extractVars, pipelineVars, renderVars>>

NextParse ==
  \/ \E text \in Texts : ParseThreadReply(text)
  \/ \E text \in Texts : ParseChatReply(text)

SpecParse == InitParse /\ [][NextParse]_vars

\* --------------------------- Spec: the page tasks of one /ocr request
\* ocr_endpoint starts one task per page (lines 1006-1008) and gathers them.
\* A task takes one step per remote call it awaits; a call that comes back
\* from its retry loop either returned (ok) or raised.
NumPages == 3
Pages == 0..NumPages - 1

NoReply == Reply("none", Absent, Absent, Absent)
NoExtraction == Extraction("none", EmptyDict)
\* the {} of the degraded return
EmptyExtraction == Extraction("object", EmptyDict)

\* Parsed replies the remote service gives in this specification.
WorkflowClassifications ==
  {Reply("object", Str("TaxInvoice"), Num(85), Absent),
   Reply("object", Str("Bogus"), Num(150), Str("x")),
   Reply("array", Absent, Absent, Absent)}
WorkflowExtractions ==
  {Extraction("object", Dict(Num(100), Absent)), Extraction("array", EmptyDict)}

\* An except clause that lets everything but HTTPException through.
Catches_http_only(exc) == exc = "HTTPException"

\* except Exception as e (line 759)
Catches(exc) == TRUE

\* A semaphore that admits without looking at its counter.
can_acquire_unbounded(s) == TRUE

\* asyncio.Semaphore.acquire returns only while the counter is positive
can_acquire(s) == s > 0

\* A block that gives its slot back only when it ends normally.
sem_after_exception_leak(s) == s

\* `async with sem` left by an exception: the slot is released
sem_after_exception(s) == s + 1

\* A block that keeps its slot when it ends normally.
sem_after_block_keeps_slot(s) == s

\* `async with sem` left normally: the slot is released
sem_after_block(s) == s + 1

\* Cleanup on the success path only (no finally).
runs_delete_on_success_only(tid, didFail) == tid # 0 /\ ~didFail

\* finally: if thread_id: await delete_thread(thread_id)
runs_delete(tid, didFail) == tid # 0

\* if isinstance(extraction_data, dict): extraction_data["pages_used"] = [page_index]
stamp_pages_used(e, page_index) ==
  IF e.kind = "object"
  THEN Extraction("object", [k \in DOMAIN e.f \cup {"pages_used"} |->
                               IF k = "pages_used" THEN Lst(<<page_index>>) ELSE e.f[k]])
  ELSE e

\* FILES_BY_THREAD[track_thread_id].append(file_id)
files_append(files, tid, fid) ==
  [t \in DOMAIN files \cup {tid} |->
     IF t = tid THEN Append(IF tid \in DOMAIN files THEN files[tid] ELSE <<>>, fid)
     ELSE files[t]]
\* A cleanup that deletes the files and forgets `del FILES_BY_THREAD[...]`.
files_delete_keeps_entry(files, tid) == files

\* A cleanup that empties the registry (FILES_BY_THREAD.clear()).
files_delete_clears_registry(files, tid) == [t \in {} |-> <<>>]

\* _delete_files_for_thread: every file of the thread is deleted, then
\* del FILES_BY_THREAD[thread_id] (nothing happens without an entry)
files_delete(files, tid) == [t \in DOMAIN files \ {tid} |-> files[t]]

\* The locals of the page tasks before any task runs.
InitPages ==
  /\ assistants \in BOOLEAN
  /\ sem = MAX_CONCURRENCY
  /\ FILES_BY_THREAD = EmptyDict
  /\ pc = [p \in Pages |-> "start"]
  /\ thread_id = [p \in Pages |-> 0]
  /\ classification_result = [p \in Pages |-> NoReply]
  /\ doc_type = [p \in Pages |-> "-"]
  /\ result = [p \in Pages |-> NoResult]
  /\ extraction = [p \in Pages |-> NoExtraction]
  /\ ret = [p \in Pages |-> "-"]
  /\ failed = [p \in Pages |-> FALSE]
  /\ deleteCalls = [p \in Pages |-> 0]

\* The answer of a route that does not stream: the status, and for 200 the
\* fields of OCRResponse.
Response(status, n, prs, groups) ==
  [status |-> status, num_pages |-> n, page_results |-> prs, grouped_results |-> groups]
NoResponse == Response(0, 0, <<>>, <<>>)

\* /ocr after the pages were rendered (line 1002): the tasks are about to
\* be created.
Init ==
  /\ InitPages
  /\ endpoint = "ocr" /\ decodable = TRUE /\ num_pages = NumPages /\ spc = "tasks"
  /\ results_queue = <<>> /\ arrivals = <<>> /\ completed_pages = 0 /\ seq_i = 0
  /\ events = <<>> /\ response = NoResponse
  /\ IdleRetry /\ IdleNorm /\ IdleGroup /\ IdleMerge /\ IdleParse /\ IdleExtract /\ IdlePipeline /\ IdleRender

\* The pages of the document: range(len(b64_images)).
TaskPages == {p \in Pages : p < num_pages}

\* Every route creating all its tasks at once.
task_created_all_at_once(p) == spc = "tasks" /\ p \in {q \in Pages : q < num_pages}

\* The task of page p exists: /ocr and /ocr-stream create all tasks at once
\* (lines 1006-1008, 907-910), /ocr/stream awaits page i inside its loop
\* (lines 1153-1154).
task_created(p) ==
  /\ spc = "tasks"
  /\ p \in TaskPages
  /\ endpoint = "ocr/stream" => seq_i = p

\* The finally clause (lines 769-771); the locals of the try block are not
\* read after it.
Finally(p, didFail) ==
  /\ IF runs_delete(thread_id[p], didFail)
     THEN /\ pc' = [pc EXCEPT ![p] = "del_files"]
          /\ deleteCalls' = [deleteCalls EXCEPT ![p] = @ + 1]
     ELSE /\ pc' = [pc EXCEPT ![p] = "done"]
          /\ UNCHANGED deleteCalls
  /\ classification_result' = [classification_result EXCEPT ![p] = NoReply]
  /\ doc_type' = [doc_type EXCEPT ![p] = "-"]

\* An exception raised in the try block: the except clause (lines 759-768)
\* when it catches it, then the finally clause. newSem is the semaphore
\* after the `async with sem` block, if the exception left one.
Except(p, exc, newSem) ==
  /\ sem' = newSem
  /\ failed' = [failed EXCEPT ![p] = TRUE]
  /\ IF Catches(exc)
     THEN /\ result' = [result EXCEPT ![p] = DegradedResult(p)]
          /\ extraction' = [extraction EXCEPT ![p] = EmptyExtraction]
          /\ ret' = [ret EXCEPT ![p] = "return"]
     ELSE /\ UNCHANGED <<result, extraction>>
          /\ ret' = [ret EXCEPT ![p] = "raise"]
  /\ Finally(p, TRUE)
  /\ UNCHANGED <<assistants, FILES_BY_THREAD, thread_id>>

\* A task that goes on to the workflow whatever the startup left.
assistants_missing_ignored(a) == FALSE

\* if not CLASSIFY_ASSISTANT_ID or not EXTRACT_ASSISTANT_ID (line 671)
assistants_missing(a) == ~a

\* lines 671-680: without assistants the degraded pair is returned at once
Begin(p) ==
  /\ pc[p] = "start"
  /\ task_created(p)
  /\ IF ~assistants_missing(assistants)
     THEN /\ pc' = [pc EXCEPT ![p] = "create"]
          /\ UNCHANGED <<result, extraction, ret>>
     ELSE /\ pc' = [pc EXCEPT ![p] = "done"]
          /\ result' = [result EXCEPT ![p] = DegradedResult(p)]
          /\ extraction' = [extraction EXCEPT ![p] = EmptyExtraction]
          /\ ret' = [ret EXCEPT ![p] = "return"]
  /\ UNCHANGED <<assistants, sem, FILES_BY_THREAD, thread_id, classification_result,
                 doc_type, failed, deleteCalls>>
  /\ UNCHANGED <<retryVars, normVars, groupVars, mergeVars, endpointVars, parseVars, extractVars, pipelineVars, renderVars>>

\* thread_id = await create_openai_thread(...) (line 686)
CreateThread(p, ok) ==
  /\ pc[p] = "create"
  /\ IF ok
     THEN /\ thread_id' = [thread_id EXCEPT ![p] = p + 1]
          /\ pc' = [pc EXCEPT ![p] = "gate"]
          /\ UNCHANGED <<assistants, sem, FILES_BY_THREAD, classification_result,
                         doc_type, result, extraction, ret, failed, deleteCalls>>
     ELSE Except(p, "HTTPException", sem)
  /\ UNCHANGED <<retryVars, normVars, groupVars, mergeVars, endpointVars, parseVars, extractVars, pipelineVars, renderVars>>

\* The image_url argument of the two send_message_to_thread calls of a page:
\* the classification turn passes the page image (line 701), the extraction
\* turn passes none (line 729).
turn_has_image_always(turn) == TRUE

turn_has_image(turn) == turn = "classification"

\* send_message_to_thread: `if image_url:` uploads the data URL before the
\* message is posted (lines 1337-1342); without an image the post comes first.
first_step(turn) ==
  IF turn_has_image(turn)
  THEN (IF turn = "classification" THEN "upload" ELSE "upload_ext")
  ELSE (IF turn = "classification" THEN "send_cls" ELSE "send_ext")

\* async with sem: (line 698)
Acquire(p) ==
  /\ pc[p] = "gate"
  /\ can_acquire(sem)
  /\ sem' = sem - 1
  /\ pc' = [pc EXCEPT ![p] = first_step("classification")]
  /\ UNCHANGED <<assistants, FILES_BY_THREAD, thread_id, classification_result,
                 doc_type, result, extraction, ret, failed, deleteCalls>>
  /\ UNCHANGED <<retryVars, normVars, groupVars, mergeVars, endpointVars, parseVars, extractVars, pipelineVars, renderVars>>

\* send_message_to_thread with the image: the upload of the data URL
\* (lines 1340-1342, 1312-1323)
Upload(p, ok) ==
  /\ pc[p] \in {"upload", "upload_ext"}
  /\ IF ok
     THEN /\ FILES_BY_THREAD' = files_append(FILES_BY_THREAD, thread_id[p], p + 1)
          /\ pc' = [pc EXCEPT ![p] = IF pc[p] = "upload" THEN "send_cls"
                                                         ELSE "send_ext"]
          /\ UNCHANGED <<assistants, sem, thread_id, classification_result,
                         doc_type, result, extraction, ret, failed, deleteCalls>>
     ELSE Except(p, "HTTPException", sem_after_exception(sem))
  /\ UNCHANGED <<retryVars, normVars, groupVars, mergeVars, endpointVars, parseVars, extractVars, pipelineVars, renderVars>>

\* One awaited remote call inside the `async with sem` block.
GatedCall(p, here, next, ok) ==
  /\ pc[p] = here
  /\ IF ok
     THEN /\ pc' = [pc EXCEPT ![p] = next]
          /\ UNCHANGED <<assistants, sem, FILES_BY_THREAD, thread_id,
                         classification_result, doc_type, result, extraction, ret,
                         failed, deleteCalls>>
     ELSE Except(p, "HTTPException", sem_after_exception(sem))
  /\ UNCHANGED <<retryVars, normVars, groupVars, mergeVars, endpointVars, parseVars, extractVars, pipelineVars, renderVars>>

\* the message post of send_message_to_thread (lines 1365-1391), line 701
SendClassification(p, ok) == GatedCall(p, "send_cls", "run_cls", ok)
\* run_thread_with_assistant: run creation (362-390), polling to a final
\* status (392-433), line 704
RunClassification(p, ok) == GatedCall(p, "run_cls", "poll_cls", ok)
PollClassification(p, ok) == GatedCall(p, "poll_cls", "fetch_cls", ok)
\* line 729, line 732
SendExtraction(p, ok) == GatedCall(p, "send_ext", "run_ext", ok)
RunExtraction(p, ok) == GatedCall(p, "run_ext", "poll_ext", ok)
PollExtraction(p, ok) == GatedCall(p, "poll_ext", "fetch_ext", ok)

\* run_thread_with_assistant: message fetch and parse (435-522), then lines
\* 708-710. ok = FALSE: the fetch failed or no reply parsed as JSON.
FetchClassification(p, ok, reply) ==
  /\ pc[p] = "fetch_cls"
  /\ reply \in WorkflowClassifications
  /\ IF ~ok THEN Except(p, "HTTPException", sem_after_exception(sem))
     ELSE IF thread_doc_type(reply) = "raised"
          THEN Except(p, "AttributeError", sem_after_exception(sem))
     ELSE /\ classification_result' = [classification_result EXCEPT ![p] = reply]
          /\ doc_type' = [doc_type EXCEPT ![p] = thread_doc_type(reply)]
          /\ pc' = [pc EXCEPT ![p] = first_step("extraction")]
          /\ UNCHANGED <<assistants, sem, FILES_BY_THREAD, thread_id, result,
                         extraction, ret, failed, deleteCalls>>
  /\ UNCHANGED <<retryVars, normVars, groupVars, mergeVars, endpointVars, parseVars, extractVars, pipelineVars, renderVars>>

\* the fetch of the extraction reply, the end of the `async with sem` block
\* and lines 735-757
FetchExtraction(p, ok, reply) ==
  /\ pc[p] = "fetch_ext"
  /\ reply \in WorkflowExtractions
  /\ IF ~ok THEN Except(p, "HTTPException", sem_after_exception(sem))
     ELSE LET r == thread_page_result(p, classification_result[p], doc_type[p]) IN
          IF r = NoResult THEN Except(p, "ValueError", sem_after_block(sem))
          ELSE /\ sem' = sem_after_block(sem)
               /\ result' = [result EXCEPT ![p] = r]
               /\ extraction' = [extraction EXCEPT ![p] = stamp_pages_used(reply, p)]
               /\ ret' = [ret EXCEPT ![p] = "return"]
               /\ Finally(p, FALSE)
               /\ UNCHANGED <<assistants, FILES_BY_THREAD, thread_id, failed>>
  /\ UNCHANGED <<retryVars, normVars, groupVars, mergeVars, endpointVars, parseVars, extractVars, pipelineVars, renderVars>>

\* delete_thread: _delete_files_for_thread (lines 529-533, 336-345); what the
\* file deletions answer changes nothing
DeleteFiles(p) ==
  /\ pc[p] = "del_files"
  /\ FILES_BY_THREAD' = files_delete(FILES_BY_THREAD, thread_id[p])
  /\ pc' = [pc EXCEPT ![p] = "del_thread"]
  /\ UNCHANGED <<assistants, sem, thread_id, classification_result, doc_type,
                 result, extraction, ret, failed, deleteCalls>>
  /\ UNCHANGED <<retryVars, normVars, groupVars, mergeVars, endpointVars, parseVars, extractVars, pipelineVars, renderVars>>

\* delete_thread: the DELETE loop (lines 535-566) returns whatever it is
\* answered; the task then returns or re-raises
DeleteThread(p) ==
  /\ pc[p] = "del_thread"
  /\ pc' = [pc EXCEPT ![p] = "done"]
  /\ UNCHANGED <<assistants, sem, FILES_BY_THREAD, thread_id, classification_result,
                 doc_type, result, extraction, ret, failed, deleteCalls>>
  /\ UNCHANGED <<retryVars, normVars, groupVars, mergeVars, endpointVars, parseVars, extractVars, pipelineVars, renderVars>>

PageNext(p) ==
  \/ Begin(p)
  \/ \E ok \in BOOLEAN : CreateThread(p, ok)
  \/ Acquire(p)
  \/ \E ok \in BOOLEAN : Upload(p, ok)
  \/ \E ok \in BOOLEAN : SendClassification(p, ok)
  \/ \E ok \in BOOLEAN : RunClassification(p, ok)
  \/ \E ok \in BOOLEAN : PollClassification(p, ok)
  \/ \E ok \in BOOLEAN, reply \in WorkflowClassifications : FetchClassification(p, ok, reply)
  \/ \E ok \in BOOLEAN : SendExtraction(p, ok)
  \/ \E ok \in BOOLEAN : RunExtraction(p, ok)
  \/ \E ok \in BOOLEAN : PollExtraction(p, ok)
  \/ \E ok \in BOOLEAN, reply \in WorkflowExtractions : FetchExtraction(p, ok, reply)
  \/ DeleteFiles(p)
  \/ DeleteThread(p)

\* page_results / extraction_data_per_page in input order (lines 1010-1012)
page_results_list == [i \in 1..num_pages |-> result[i - 1]]
extraction_data_list == [i \in 1..num_pages |-> extraction[i - 1]]

\* lines 1026-1045: one ExtractedGroup per item of grouped_spans whose
\* first span is not empty; data is MergeRaised when .items() raised
extracted_groups(grouped_spans, data) ==
  LET kept == SelectSeq(grouped_spans, LAMBDA g : g.spans # <<>> /\ g.spans[1] # <<>>)
  IN  [i \in 1..Len(kept) |->
         [doc_type |-> kept[i].doc_type, page_spans |-> kept[i].spans,
          data |-> combine_extraction(flatten_spans(kept[i].spans), data)]]
\* The groups combined before the loop raised (all of them if it did not).
RECURSIVE groups_before_raise(_)
groups_before_raise(groups) ==
  IF groups = <<>> \/ Head(groups).data = MergeRaised THEN <<>>
  ELSE <<Head(groups)>> \o groups_before_raise(Tail(groups))
combine_raises(groups) == \E i \in 1..Len(groups) : groups[i].data = MergeRaised

\* ocr_endpoint from the gather on (lines 1010-1074). gather re-raises a
\* task's exception; an exception that leaves the handler is answered 500.
OcrRespond ==
  /\ endpoint = "ocr" /\ spc = "tasks"
  /\ \A p \in TaskPages : pc[p] = "done"
  /\ LET groups == extracted_groups(chunk_consecutive_by_type(page_results_list),
                                    extraction_data_list)
     IN  response' =
           IF \E p \in TaskPages : ret[p] = "raise" THEN Response(500, 0, <<>>, <<>>)
           ELSE IF combine_raises(groups) THEN Response(500, 0, <<>>, <<>>)
           ELSE Response(200, num_pages, page_results_list, groups)
  /\ spc' = "closed"
  /\ UNCHANGED <<endpoint, decodable, num_pages, results_queue, arrivals,
                 completed_pages, seq_i, events>>
  /\ UNCHANGED <<retryVars, normVars, groupVars, mergeVars, pageVars, parseVars, extractVars, pipelineVars, renderVars>>

Next ==
  \/ \E p \in Pages : PageNext(p)
  \/ OcrRespond

Spec == Init /\ [][Next]_vars

\* ------------------------------- SpecEndpoints: the three OCR routes
\* One upload to /ocr, /ocr-stream (concurrent stream) or /ocr/stream
\* (sequential stream), from fitz.open on.
MaxStreamPages == 2
Endpoints == {"ocr", "ocr-stream", "ocr/stream"}

\* One `data: ...` chunk of a stream: the JSON object's type, its stage
\* (progress events), page index and PageResult (page events), and its
\* count (total_pages of start, processed_pages of complete).
Event(type, stage, page_index, page_result, count) ==
  [type |-> type, stage |-> stage, page_index |-> page_index,
   page_result |-> page_result, count |-> count]
Status(message) == Event("status", message, -1, NoResult, 0)
Progress(stage, page_index, page_result) == Event("progress", stage, page_index, page_result, 0)
StreamError == Event("error", "-", -1, NoResult, 0)
\* data: [DONE]
Sentinel == Event("[DONE]", "-", -1, NoResult, 0)

\* What process_single_page puts on results_queue.
QueueItem(type, page_index, page_result) ==
  [type |-> type, page_index |-> page_index, page_result |-> page_result]

\* A queue that hands out its newest item.
queue_get_index_lifo(q) == Len(q)

\* asyncio.Queue.get: the oldest item (FIFO)
queue_get_index(q) == 1

\* A get that leaves the item on the queue.
queue_without_removal(q, i) == q

\* the queue once get has taken item i
queue_without(q, i) == [j \in 1..Len(q) - 1 |-> IF j < i THEN q[j] ELSE q[j + 1]]

\* A handler that goes on after fitz.open raised.
open_succeeds_always(d) == TRUE

\* try: doc = fitz.open(...) except Exception: the document is refused
open_succeeds(d) == d

InitEndpoints ==
  /\ InitPages
  /\ endpoint \in Endpoints
  /\ decodable \in BOOLEAN
  /\ num_pages \in 1..MaxStreamPages
  /\ spc = "open"
  /\ results_queue = <<>> /\ arrivals = <<>> /\ completed_pages = 0 /\ seq_i = 0
  /\ events = <<>> /\ response = NoResponse
  /\ IdleRetry /\ IdleNorm /\ IdleGroup /\ IdleMerge /\ IdleParse /\ IdleExtract /\ IdlePipeline /\ IdleRender

\* ocr_endpoint, lines 990-1008: open, render, create the tasks
OcrOpen ==
  /\ endpoint = "ocr" /\ spc = "open"
  /\ IF open_succeeds(decodable)
     THEN spc' = "tasks" /\ UNCHANGED response
     ELSE spc' = "closed" /\ response' = Response(400, 0, <<>>, <<>>)
  /\ UNCHANGED <<endpoint, decodable, num_pages, results_queue, arrivals,
                 completed_pages, seq_i, events>>
  /\ UNCHANGED <<retryVars, normVars, groupVars, mergeVars, pageVars, parseVars, extractVars, pipelineVars, renderVars>>

\* /ocr-stream, lines 860-910: open and render before the stream exists,
\* then the start event and the tasks
StreamOpen ==
  /\ endpoint = "ocr-stream" /\ spc = "open"
  /\ IF open_succeeds(decodable)
     THEN /\ spc' = "tasks"
          /\ events' = <<Event("start", "-", -1, NoResult, num_pages)>>
          /\ UNCHANGED response
     ELSE /\ spc' = "closed"
          /\ response' = Response(400, 0, <<>>, <<>>)
          /\ UNCHANGED events
  /\ UNCHANGED <<endpoint, decodable, num_pages, results_queue, arrivals,
                 completed_pages, seq_i>>
  /\ UNCHANGED <<retryVars, normVars, groupVars, mergeVars, pageVars, parseVars, extractVars, pipelineVars, renderVars>>

\* process_single_page, lines 888-904, once process_page_with_thread has
\* returned or raised
Publish(p) ==
  /\ endpoint = "ocr-stream" /\ spc = "tasks"
  /\ pc[p] = "done"
  /\ \A i \in 1..Len(arrivals) : arrivals[i] # p
  /\ results_queue' = Append(results_queue,
                             IF ret[p] = "return"
                             THEN QueueItem("page_result", p, result[p])
                             ELSE QueueItem("page_error", p, NoResult))
  /\ arrivals' = Append(arrivals, p)
  /\ UNCHANGED <<endpoint, decodable, num_pages, spc, completed_pages, seq_i,
                 events, response>>
  /\ UNCHANGED <<retryVars, normVars, groupVars, mergeVars, pageVars, parseVars, extractVars, pipelineVars, renderVars>>

\* One iteration of the loop of lines 913-944 that gets an item (an
\* iteration that times out changes nothing).
StreamConsume ==
  /\ endpoint = "ocr-stream" /\ spc = "tasks"
  /\ completed_pages < num_pages
  /\ results_queue # <<>>
  /\ LET i == queue_get_index(results_queue)
         item == results_queue[i]
     IN  /\ results_queue' = queue_without(results_queue, i)
         /\ events' = Append(events, Event(item.type, "-", item.page_index,
                                           item.page_result, 0))
  /\ completed_pages' = completed_pages + 1
  /\ UNCHANGED <<endpoint, decodable, num_pages, spc, arrivals, seq_i, response>>
  /\ UNCHANGED <<retryVars, normVars, groupVars, mergeVars, pageVars, parseVars, extractVars, pipelineVars, renderVars>>

\* successful_pages = sum(1 for r in page_results if r is not None)
successful_pages(evs) ==
  Cardinality({i \in 1..Len(evs) : evs[i].type = "page_result"})

\* lines 946-956: the gather of the finished tasks and the complete event;
\* the generator ends there
StreamComplete ==
  /\ endpoint = "ocr-stream" /\ spc = "tasks"
  /\ completed_pages >= num_pages
  /\ events' = Append(events, Event("complete", "-", -1, NoResult, successful_pages(events)))
  /\ spc' = "closed"
  /\ UNCHANGED <<endpoint, decodable, num_pages, results_queue, arrivals,
                 completed_pages, seq_i, response>>
  /\ UNCHANGED <<retryVars, normVars, groupVars, mergeVars, pageVars, parseVars, extractVars, pipelineVars, renderVars>>

\* /ocr/stream, lines 1130-1153: the stream exists before the document is
\* opened
SeqOpen ==
  /\ endpoint = "ocr/stream" /\ spc = "open"
  /\ IF open_succeeds(decodable)
     THEN /\ spc' = "tasks"
          /\ events' = <<Status("Processing started..."), Status("Rendering pages..."),
                         Progress("render", -1, NoResult), Status("Processing pages...")>>
     ELSE /\ spc' = "closed"
          /\ events' = <<Status("Processing started..."), StreamError>>
  /\ UNCHANGED <<endpoint, decodable, num_pages, results_queue, arrivals,
                 completed_pages, seq_i, response>>
  /\ UNCHANGED <<retryVars, normVars, groupVars, mergeVars, pageVars, parseVars, extractVars, pipelineVars, renderVars>>

\* lines 1154-1157 after the await: the progress event of page i; an
\* exception of the page task goes to the handler of lines 1209-1212
SeqPageDone ==
  /\ endpoint = "ocr/stream" /\ spc = "tasks"
  /\ seq_i < num_pages
  /\ pc[seq_i] = "done"
  /\ IF ret[seq_i] = "return"
     THEN /\ events' = Append(events, Progress("process", seq_i, result[seq_i]))
          /\ seq_i' = seq_i + 1
          /\ UNCHANGED spc
     ELSE /\ events' = events \o <<StreamError, Sentinel>>
          /\ spc' = "closed"
          /\ UNCHANGED seq_i
  /\ UNCHANGED <<endpoint, decodable, num_pages, results_queue, arrivals,
                 completed_pages, response>>
  /\ UNCHANGED <<retryVars, normVars, groupVars, mergeVars, pageVars, parseVars, extractVars, pipelineVars, renderVars>>

\* lines 1159-1212 after the page loop: grouping, the merge with one
\* progress event per group, then complete and [DONE], or error and
\* [DONE] when the merge raised
SeqFinish ==
  /\ endpoint = "ocr/stream" /\ spc = "tasks"
  /\ seq_i = num_pages
  /\ LET groups == extracted_groups(chunk_consecutive_by_type(page_results_list),
                                    extraction_data_list)
         done == groups_before_raise(groups)
     IN  events' = events
           \o <<Progress("classify_complete", -1, NoResult),
                Status("Found document groups"), Status("Combining extraction data...")>>
           \o [i \in 1..Len(done) |-> Progress("combine", -1, NoResult)]
           \o (IF combine_raises(groups) THEN <<StreamError, Sentinel>>
               ELSE <<Event("complete", "-", -1, NoResult, num_pages), Sentinel>>)
  /\ spc' = "closed"
  /\ UNCHANGED <<endpoint, decodable, num_pages, results_queue, arrivals,
                 completed_pages, seq_i, response>>
  /\ UNCHANGED <<retryVars, normVars, groupVars, mergeVars, pageVars, parseVars, extractVars, pipelineVars, renderVars>>

NextEndpoints ==
  \/ OcrOpen
  \/ StreamOpen
  \/ SeqOpen
  \/ \E p \in Pages : PageNext(p)
  \/ OcrRespond
  \/ \E p \in Pages : Publish(p)
  \/ StreamConsume
  \/ StreamComplete
  \/ SeqPageDone
  \/ SeqFinish

SpecEndpoints == InitEndpoints /\ [][NextEndpoints]_vars

\* ---------------------------------------- SpecExtract: extraction records
\* What a call returns as the extraction record of its pages, from the
\* parsed reply of the remote service.

\* get_document_schema(doc_type, STRUCTURE_SCHEMA): {} unless the table has
\* an entry for doc_type; `if not schema` is then true
schema_found(registered) == registered

\* process_page_with_thread, lines 711-757: without a schema the extraction
\* turn is still sent, with `schema = {}` in its prompt (lines 712-714), and
\* the parsed reply is stamped and returned
thread_extraction(registered, page_index, reply) ==
  stamp_pages_used(reply, page_index)

\* the fallback of extract_for_group (lines 822-824)
fallback_extraction(pages_flat) ==
  Extraction("object", [k \in {"document_type", "pages_used"} |->
                          IF k = "document_type" THEN Str("Unknown")
                          ELSE Lst(pages_flat)])

\* if isinstance(obj, dict) and "pages_used" not in obj: obj["pages_used"] = pages_flat
stamp_if_absent(obj, pages_flat) ==
  IF obj.kind = "object" /\ "pages_used" \notin DOMAIN obj.f
  THEN Extraction("object", [k \in DOMAIN obj.f \cup {"pages_used"} |->
                               IF k = "pages_used" THEN Lst(pages_flat) ELSE obj.f[k]])
  ELSE obj

\* extract_for_group (lines 819-844)
extract_for_group(registered, pages_flat, obj) ==
  IF ~schema_found(registered) THEN fallback_extraction(pages_flat)
  ELSE stamp_if_absent(obj, pages_flat)

\* Replies: an object with or without a field "a" and with or without
\* pages_used (null, empty, one index, two indices), or an array.
PagesUsedValues == {Absent, Null, Lst(<<>>), Lst(<<0>>), Lst(<<1>>), Lst(<<0, 1>>)}
ReplyDict(a, pages_used) ==
  [k \in {x \in {"a", "pages_used"} :
            (IF x = "a" THEN a ELSE pages_used) # Absent} |->
     IF k = "a" THEN a ELSE pages_used]
ExtractionReplies ==
  {Extraction("object", ReplyDict(a, u)) : a \in {Absent, Null, Num(100)},
                                           u \in PagesUsedValues}
  \cup {Extraction("array", EmptyDict)}
\* Runs of consecutive page indices.
PageRuns ==
  {[i \in 1..n |-> lo + i - 1] : lo \in 0..MaxIndex, n \in 1..MaxIndex + 1}

InitExtract ==
  /\ xPath \in {"thread", "group"}
  /\ xSchema \in BOOLEAN
  /\ xPages \in PageRuns
  /\ xPath = "thread" => Len(xPages) = 1
  /\ xReply \in ExtractionReplies
  /\ xOut = NoExtraction
  /\ xState = "ready"
  /\ IdleRetry /\ IdleNorm /\ IdleGroup /\ IdleMerge /\ IdlePages /\ IdleEndpoint
  /\ IdleParse /\ IdlePipeline /\ IdleRender

ExtractThread ==
  /\ xState = "ready" /\ xPath = "thread"
  /\ xOut' = thread_extraction(xSchema, xPages[1], xReply)
  /\ xState' = "returned"
  /\ UNCHANGED <<xPath, xSchema, xPages, xReply>>
  /\ UNCHANGED <<retryVars, normVars, groupVars, mergeVars, pageVars, endpointVars,
                 parseVars, pipelineVars, renderVars>>

ExtractForGroup ==
  /\ xState = "ready" /\ xPath = "group"
  /\ xOut' = extract_for_group(xSchema, xPages, xReply)
  /\ xState' = "returned"
  /\ UNCHANGED <<xPath, xSchema, xPages, xReply>>
  /\ UNCHANGED <<retryVars, normVars, groupVars, mergeVars, pageVars, endpointVars,
                 parseVars, pipelineVars, renderVars>>

NextExtract == ExtractThread \/ ExtractForGroup

SpecExtract == InitExtract /\ [][NextExtract]_vars

\* ------------------------------------- SpecTeardown: delete_thread in full
\* The finally clause of process_page_with_thread for one page (page 0 of a
\* one-page document on /ocr), with the file deletions and the DELETE loop
\* of delete_thread spelled out request by request.

\* The pairs process_page_with_thread has ready when it enters the finally
\* clause with a thread: a normal pair, or the degraded pair.
ReadyPairs ==
  {<<thread_page_result(0, c, thread_doc_type(c)), stamp_pages_used(e, 0), FALSE>> :
      c \in {r \in WorkflowClassifications : r.kind = "object"},
      e \in WorkflowExtractions}
  \cup {<<DegradedResult(0), EmptyExtraction, TRUE>>}

InitTeardown ==
  /\ assistants = TRUE
  /\ sem = MAX_CONCURRENCY
  /\ FILES_BY_THREAD \in {EmptyDict, files_append(EmptyDict, 1, 1)}
  /\ pc = [p \in Pages |-> IF p = 0 THEN "del_files" ELSE "start"]
  /\ thread_id = [p \in Pages |-> IF p = 0 THEN 1 ELSE 0]
  /\ classification_result = [p \in Pages |-> NoReply]
  /\ doc_type = [p \in Pages |-> "-"]
  /\ \E pair \in ReadyPairs :
       /\ pair[1] # NoResult
       /\ result = [p \in Pages |-> IF p = 0 THEN pair[1] ELSE NoResult]
       /\ extraction = [p \in Pages |-> IF p = 0 THEN pair[2] ELSE NoExtraction]
       /\ failed = [p \in Pages |-> p = 0 /\ pair[3]]
       /\ ~pair[3] => FILES_BY_THREAD # EmptyDict
  /\ ret = [p \in Pages |-> IF p = 0 THEN "return" ELSE "-"]
  /\ deleteCalls = [p \in Pages |-> IF p = 0 THEN 1 ELSE 0]
  /\ endpoint = "ocr" /\ decodable = TRUE /\ num_pages = 1 /\ spc = "tasks"
  /\ results_queue = <<>> /\ arrivals = <<>> /\ completed_pages = 0 /\ seq_i = 0
  /\ events = <<>> /\ response = NoResponse
  /\ IdleRetry /\ IdleNorm /\ IdleGroup /\ IdleMerge /\ IdleParse /\ IdleExtract /\ IdlePipeline /\ IdleRender

\* delete_thread, lines 529-533 with _delete_files_for_thread (336-345) and
\* _delete_openai_file (330-334): one DELETE per file of the entry, answered
\* resp; a status other than 200 and 404, or an exception, is logged; then
\* the entry is removed and the DELETE loop of the thread begins.
TeardownFiles(resp) ==
  /\ pc[0] = "del_files"
  /\ call = "-"
  /\ LET has_files == thread_id[0] \in DOMAIN FILES_BY_THREAD IN
     /\ ~has_files => resp = Http(200)
     /\ warnings' = IF has_files /\ (IsException(resp) \/ resp.code \notin {200, 404})
                    THEN 1 ELSE 0
  /\ FILES_BY_THREAD' = files_delete(FILES_BY_THREAD, thread_id[0])
  /\ pc' = [pc EXCEPT ![0] = "del_thread"]
  /\ call' = "delete_thread" /\ attempt' = 0 /\ log' = <<>> /\ waits' = <<>>
  /\ cstate' = "calling"
  /\ UNCHANGED <<polls, delay, pollWaits>>
  /\ UNCHANGED <<assistants, sem, thread_id, classification_result, doc_type,
                 result, extraction, ret, failed, deleteCalls>>
  /\ UNCHANGED <<normVars, groupVars, mergeVars, endpointVars, parseVars, extractVars, pipelineVars, renderVars>>

\* one iteration of the DELETE loop of delete_thread (lines 540-566)
TeardownAttempt(resp) ==
  /\ pc[0] = "del_thread"
  /\ call = "delete_thread"
  /\ LoopAttempt(resp)

\* delete_thread has ended: the finally clause is over, and the task
\* returns its pair, or raises what delete_thread raised
TeardownReturn ==
  /\ pc[0] = "del_thread"
  /\ cstate \in {"returned", "raised"}
  /\ pc' = [pc EXCEPT ![0] = "done"]
  /\ ret' = [ret EXCEPT ![0] = IF cstate = "raised" THEN "raise" ELSE @]
  /\ UNCHANGED <<assistants, sem, FILES_BY_THREAD, thread_id, classification_result,
                 doc_type, result, extraction, failed, deleteCalls>>
  /\ UNCHANGED <<retryVars, normVars, groupVars, mergeVars, endpointVars, parseVars,
                 extractVars, pipelineVars, renderVars>>

NextTeardown ==
  \/ \E resp \in PlainResponses : TeardownFiles(resp)
  \/ \E resp \in PlainResponses : TeardownAttempt(resp)
  \/ TeardownReturn

SpecTeardown == InitTeardown /\ [][NextTeardown]_vars

\* ----------------------------------- SpecTermination: requests and polling
\* A request to one of the three routes, whose page tasks take every remote
\* call as a step that returns (with a result or an error), or the status
\* checks of one run, whose statuses the remote service chooses freely.
InitTermination ==
  \/ InitEndpoints
  \/ /\ InitCall("status_check")
     /\ IdleNorm /\ IdleGroup /\ IdleMerge /\ IdlePages /\ IdleEndpoint
     /\ IdleParse /\ IdleExtract /\ IdlePipeline /\ IdleRender

RequestStep == spc # "-" /\ NextEndpoints
StatusCheckStep ==
  /\ call = "status_check"
  /\ \E resp \in StatusResponses : LoopAttempt(resp)

NextTermination == RequestStep \/ StatusCheckStep

\* The event loop runs a task that can take a step.
SpecTermination ==
  InitTermination /\ [][NextTermination]_vars /\ WF_vars(RequestStep)

\* ----------------------- SpecPipeline: grouping and merge of one document
\* ocr_endpoint lines 1011-1045 on the results of the page tasks. A page
\* task that did not run the workflow returns (Unknown, {}) under its own
\* index; one that ran it returns the reply's doc_type, the reply's
\* page_index and the reply's object stamped with pages_used = [its index].
\* The documents taken here are those whose replies name every index once.
MaxPipelinePages == 3
PipelineTypes == {"TaxInvoice", "EWayBill"}
PipelineReplies ==
  {Extraction("object", [items |-> Lst(<<1>>)]),
   Extraction("object", [a |-> Num(100)])}
PipelinePair(own_index, degraded, reply_index, d, e) ==
  IF degraded THEN <<DegradedResult(own_index), EmptyExtraction>>
  ELSE <<PageResult(reply_index, d, Fin(85)), stamp_pages_used(e, own_index)>>

InitPipeline ==
  /\ \E n \in 1..MaxPipelinePages :
     \E perm \in Permutations(1..n) :
     \E bad \in SUBSET {i \in 1..n : perm[i] = i} :
     \E types \in [1..n -> PipelineTypes] :
     \E replies \in [1..n -> PipelineReplies] :
       LET pair(i) == PipelinePair(i - 1, i \in bad, perm[i] - 1, types[i], replies[i])
       IN  /\ page_results = [i \in 1..n |-> pair(i)[1]]
           /\ extraction_data_per_page = [i \in 1..n |-> pair(i)[2]]
  /\ grouped_results = <<>>
  /\ plState = "ready"
  /\ IdleRetry /\ IdleNorm /\ IdleGroup /\ IdleMerge /\ IdlePages /\ IdleEndpoint
  /\ IdleParse /\ IdleExtract /\ IdleRender

\* lines 1019-1045: grouped_spans, then one ExtractedGroup per doc_type
GroupAndMerge ==
  /\ plState = "ready"
  /\ LET grouped_spans == chunk_consecutive_by_type(
                            [i \in 1..Len(page_results) |->
                               [doc_type |-> page_results[i].doc_type,
                                page_index |-> page_results[i].page_index]])
         groups == extracted_groups(grouped_spans, extraction_data_per_page)
     IN  /\ grouped_results' = groups_before_raise(groups)
         /\ plState' = IF combine_raises(groups) THEN "raised" ELSE "returned"
  /\ UNCHANGED <<page_results, extraction_data_per_page>>
  /\ UNCHANGED <<retryVars, normVars, groupVars, mergeVars, pageVars, endpointVars, parseVars, extractVars, renderVars>>

NextPipeline == GroupAndMerge

SpecPipeline == InitPipeline /\ [][NextPipeline]_vars

\* ------------------------------------ SpecRender: the raster of one page
\* b64_png_from_page (lines 217-242). sizes[d] is the length of the PNG the
\* page gives at d DPI; a page is drawn with each length just under, at, or
\* just over the limit, independently for each resolution.
RENDER_DPI == 200
SIZE_LIMIT == 15000000
\* for lower_dpi in [140, 110, 92]
LowerDpis == <<140, 110, 92>>
RenderDpis == {RENDER_DPI} \cup {LowerDpis[i] : i \in 1..Len(LowerDpis)}
RenderSizes == {SIZE_LIMIT - 1, SIZE_LIMIT, SIZE_LIMIT + 1}

InitRender ==
  /\ sizes \in [RenderDpis -> RenderSizes]
  /\ tried = <<>>
  /\ data_len = 0
  /\ rState = "ready"
  /\ IdleRetry /\ IdleNorm /\ IdleGroup /\ IdleMerge /\ IdlePages /\ IdleEndpoint
  /\ IdleParse /\ IdleExtract /\ IdlePipeline

\* len(data) > 15_000_000 (line 224), and its negation at line 230
too_large(n) == n > SIZE_LIMIT

\* lines 219-222: the rendering at `dpi`
RenderFirst ==
  /\ rState = "ready"
  /\ tried' = <<RENDER_DPI>>
  /\ data_len' = sizes[RENDER_DPI]
  /\ rState' = "rendered"
  /\ UNCHANGED sizes
  /\ UNCHANGED <<retryVars, normVars, groupVars, mergeVars, pageVars, endpointVars, parseVars, extractVars, pipelineVars>>

\* lines 224-232: one iteration of the loop over the lower resolutions,
\* entered and continued only while the raster held is too large
RenderLower ==
  /\ rState = "rendered"
  /\ too_large(data_len)
  /\ Len(tried) <= Len(LowerDpis)
  /\ LET lower_dpi == LowerDpis[Len(tried)]
     IN  /\ tried' = Append(tried, lower_dpi)
         /\ data_len' = sizes[lower_dpi]
  /\ UNCHANGED <<sizes, rState>>
  /\ UNCHANGED <<retryVars, normVars, groupVars, mergeVars, pageVars, endpointVars, parseVars, extractVars, pipelineVars>>

\* lines 233-242: the raster held is saved, encoded and returned, whether
\* the loop ended by `break` or ran out of resolutions
RenderReturn ==
  /\ rState = "rendered"
  /\ ~too_large(data_len) \/ Len(tried) > Len(LowerDpis)
  /\ rState' = "returned"
  /\ UNCHANGED <<sizes, tried, data_len>>
  /\ UNCHANGED <<retryVars, normVars, groupVars, mergeVars, pageVars, endpointVars, parseVars, extractVars, pipelineVars>>

NextRender == RenderFirst \/ RenderLower \/ RenderReturn

SpecRender == InitRender /\ [][NextRender]_vars

\* ================================================= claims: page tasks
GatedPcs == {"upload", "send_cls", "run_cls", "poll_cls", "fetch_cls",
             "send_ext", "run_ext", "poll_ext", "fetch_ext"}
UsePcs == GatedPcs \cup {"gate"}
InsideGate == {p \in Pages : pc[p] \in GatedPcs}

\* C1: process_page_with_thread always returns a (PageResult, extraction)
\* pair and never raises, whatever the remote service does and with or
\* without assistants; when a step of the workflow failed the pair is the
\* degraded one: page_index of the page, doc_type Unknown, confidence 0.0
\* and an empty extraction mapping.
C1_NeverRaisesDegradesOnFailure ==
  \A p \in Pages :
    /\ ret[p] # "raise"
    /\ pc[p] = "done" =>
         /\ ret[p] = "return"
         /\ result[p] # NoResult
         /\ extraction[p] # NoExtraction
    /\ (ret[p] = "return" /\ (failed[p] \/ ~assistants)) =>
         /\ result[p] = DegradedResult(p)
         /\ result[p].doc_type = "Unknown"
         /\ result[p].confidence = Fin(0)
         /\ extraction[p] = EmptyExtraction

\* A page whose reply was an object with a page_index that int() rejects,
\* or no object at all, has returned the degraded pair after its thread
\* was created.
C1_Witness ==
  \E p \in Pages :
    /\ pc[p] = "done" /\ failed[p] /\ thread_id[p] # 0
    /\ result[p] = DegradedResult(p)
    /\ \E q \in Pages : pc[q] = "done" /\ ~failed[q] /\ assistants

\* C2: when the remote service fails for a page, that page's result is
\* doc_type Unknown with confidence 0.0; a step of one page task changes
\* nothing that belongs to another page (its thread, its result, its
\* extraction, its registry entry), so a sibling's result is what it is in
\* the run where the page succeeds; and every page task completes: each
\* step moves its task forward, and a task that is not done can take a
\* step, or waits at the gate for a task inside that can.
OwnFiles(files, q) == IF thread_id[q] \in DOMAIN files THEN files[thread_id[q]] ELSE <<>>
SiblingUntouched(q) ==
  /\ thread_id'[q] = thread_id[q]
  /\ classification_result'[q] = classification_result[q]
  /\ doc_type'[q] = doc_type[q]
  /\ result'[q] = result[q]
  /\ extraction'[q] = extraction[q]
  /\ ret'[q] = ret[q]
  /\ failed'[q] = failed[q]
  /\ deleteCalls'[q] = deleteCalls[q]
  /\ thread_id[q] # 0 => OwnFiles(FILES_BY_THREAD', q) = OwnFiles(FILES_BY_THREAD, q)
PcOrder == <<"start", "create", "gate", "upload", "send_cls", "run_cls", "poll_cls",
             "fetch_cls", "send_ext", "run_ext", "poll_ext", "fetch_ext",
             "del_files", "del_thread", "done">>
Rank(l) == CHOOSE i \in 1..Len(PcOrder) : PcOrder[i] = l
C2_FailureIsolation ==
  /\ [](\A p \in Pages :
          /\ (failed[p] /\ pc[p] = "done") =>
               /\ result[p].doc_type = "Unknown"
               /\ result[p].confidence = Fin(0)
          /\ pc[p] # "done" =>
               \/ ENABLED PageNext(p)
               \/ pc[p] = "gate" /\ \E q \in InsideGate : ENABLED PageNext(q))
  /\ [][\A p \in Pages : pc'[p] # pc[p] =>
          /\ Rank(pc'[p]) > Rank(pc[p])
          /\ \A q \in Pages \ {p} : pc'[q] = pc[q] /\ SiblingUntouched(q)]_vars

\* Page 0 failed inside the gated section while its siblings were in it or
\* waiting for it, and the siblings completed with a normal result.
C2_Witness ==
  /\ pc[0] = "done" /\ failed[0] /\ thread_id[0] # 0
  /\ \A q \in Pages \ {0} :
       /\ pc[q] = "done" /\ ~failed[q]
       /\ result[q] = PageResult(q, "TaxInvoice", Fin(85))

\* C3: for every thread process_page_with_thread created, delete_thread is
\* started exactly once before the task returns, on the success path and
\* after a failure at any later step; it is never started without a
\* thread, and no step that uses the thread comes after it.
C3_TeardownExactlyOnce ==
  \A p \in Pages :
    /\ deleteCalls[p] <= 1
    /\ pc[p] = "done" => deleteCalls[p] = (IF thread_id[p] # 0 THEN 1 ELSE 0)
    /\ pc[p] \in {"del_files", "del_thread"} => deleteCalls[p] = 1 /\ thread_id[p] # 0
    /\ pc[p] \in UsePcs => deleteCalls[p] = 0 /\ thread_id[p] # 0
    /\ deleteCalls[p] = 0 /\ thread_id[p] # 0 => pc[p] \in UsePcs

\* One page failed after its thread was created and another succeeded;
\* both are done with one deletion each.
C3_Witness ==
  \E p, q \in Pages :
    /\ pc[p] = "done" /\ failed[p] /\ thread_id[p] # 0 /\ deleteCalls[p] = 1
    /\ pc[q] = "done" /\ ~failed[q] /\ thread_id[q] # 0 /\ deleteCalls[q] = 1

\* C10: at most MAX_CONCURRENCY page tasks are inside the `async with sem`
\* block at any time, the semaphore counts the free slots, and while the
\* block is full a task at the gate cannot enter.
C10_GateBound ==
  /\ Cardinality(InsideGate) <= MAX_CONCURRENCY
  /\ sem = MAX_CONCURRENCY - Cardinality(InsideGate)
  /\ Cardinality(InsideGate) = MAX_CONCURRENCY =>
       \A p \in Pages : pc[p] = "gate" => ~ENABLED Acquire(p)

\* The block is full and a third task waits at the gate.
C10_Witness ==
  /\ Cardinality(InsideGate) = MAX_CONCURRENCY
  /\ \E p \in Pages : pc[p] = "gate"

\* ===================================================== claims: retries
Last(s) == s[Len(s)]

\* The claims' list of retried calls (the chat-completion call included).
RetriedCalls == {"create_thread", "send_message", "run_create", "status_check",
                 "fetch_messages", "chat_completion"}
AllTransient(l) == \A i \in 1..Len(l) : IsTransient(l[i]) \/ IsException(l[i])
\* 1.25 s, 2.5 s, 5.0 s
RetryLawDelays == <<(5 * TicksPerSecond) \div 4, (5 * TicksPerSecond) \div 2,
                    5 * TicksPerSecond>>

\* C6: retry law. While every attempt of a retried call meets a transient
\* failure, the call makes exactly RETRY_MAX = 4 attempts, waits exactly
\* 1.25, 2.5 and 5.0 seconds between them (no wait after the 4th failure)
\* and then raises.
C6_RetryLaw ==
  (call \in RetriedCalls /\ AllTransient(log)) =>
     /\ Len(log) <= RETRY_MAX
     /\ Len(waits) <= Len(RetryLawDelays)
     /\ waits = SubSeq(RetryLawDelays, 1, Len(waits))
     /\ cstate = "calling" => Len(waits) = Len(log)
     /\ cstate # "calling" =>
           /\ cstate = "raised"
           /\ Len(log) = RETRY_MAX
           /\ waits = RetryLawDelays

\* The same law for the calls that go through the Assistants HTTP retry loop
\* only (without the chat-completion call).
C6_RetryLawHttpLoops ==
  (call \in RetriedCalls \ {"chat_completion"}) => C6_RetryLaw

SuccessCodes(kind) ==
  IF kind \in {"status_check", "fetch_messages"} THEN {200} ELSE {200, 201}
NonTransientSignal(kind, resp) ==
  /\ ~IsException(resp)
  /\ resp.code \notin TransientCodes
  /\ resp.code \notin SuccessCodes(kind)

\* C7: a response that is neither a success nor a transient status ends the
\* call at once: it is the last response of the call, the call has raised,
\* and no backoff wait follows it.
C7_NonTransientFailsImmediately ==
  (call \in {"create_thread", "send_message", "run_create", "status_check",
             "fetch_messages"}) =>
     \A i \in 1..Len(log) :
        NonTransientSignal(call, log[i]) =>
           /\ i = Len(log)
           /\ cstate = "raised"
           /\ Len(waits) < i

\* C9: deleting is idempotent. A delete answered 404 is settled exactly as
\* one answered 200: delete_thread returns normally after that attempt, with
\* no backoff wait and no warning for it; _delete_openai_file returns
\* normally without a warning.
C9_DeleteIdempotent ==
  /\ (call = "delete_thread" /\ Len(log) > 0 /\ Last(log).code \in {200, 404}) =>
        /\ cstate = "returned"
        /\ Len(waits) = Len(log) - 1
        /\ attempt = Len(log) - 1
        /\ warnings = Len(log) - 1
  /\ (call = "delete_file" /\ Len(log) > 0 /\ Last(log).code \in {200, 404}) =>
        /\ cstate = "returned"
        /\ warnings = 0

\* A delete_thread whose second attempt is answered 404.
C9_Witness ==
  /\ call = "delete_thread"
  /\ Len(log) = 2
  /\ Last(log).code = 404
  /\ cstate = "returned"

\* ============================================== claims: classification
TypeOrderSet == {TYPE_ORDER[i] : i \in 1..Len(TYPE_ORDER)}
ValidPageResult(r) ==
  /\ r.confidence.k = "fin"
  /\ 0 <= r.confidence.n
  /\ r.confidence.n <= 100
  /\ r.doc_type \in TypeOrderSet

\* C8: every PageResult produced, on the thread path (normal or degraded)
\* and on the chat-completion path, has 0 <= confidence <= 1 and a doc_type
\* of TYPE_ORDER, whatever doc_type and confidence the reply carries.
C8_PageResultInRange ==
  nState = "returned" => ValidPageResult(nOut)

\* A reply with confidence -0.5 and an unrecognised doc_type has been
\* normalised to confidence 0.0 and Unknown on the thread path.
C8_Witness ==
  /\ nState = "returned"
  /\ nPath = "thread"
  /\ nReply.confidence = Num(-50)
  /\ nReply.doc_type = Str("Bogus")
  /\ nReply.page_index = Absent
  /\ nOut = PageResult(nIndex, "Unknown", Fin(0))

\* ===================================================== claims: grouping
GroupTypeAt(i) == gPages[i + 1].doc_type
NumPagesGrouped == Len(gPages)
\* Indices at which a maximal run of adjacent equal types starts.
RunStarts == {i \in 0..NumPagesGrouped - 1 : i = 0 \/ GroupTypeAt(i) # GroupTypeAt(i - 1)}
AllSpans == flatten_spans([g \in 1..Len(gGroups) |-> gGroups[g].spans])
\* span is a maximal run of pages of type t
IsMaximalRun(span, t) ==
  /\ Len(span) >= 1
  /\ \A j \in 1..Len(span) :
        /\ span[j] \in 0..NumPagesGrouped - 1
        /\ span[j] = span[1] + j - 1
        /\ GroupTypeAt(span[j]) = t
  /\ span[1] \in RunStarts
  /\ (span[Len(span)] + 1 < NumPagesGrouped) => (span[Len(span)] + 1) \in RunStarts
Identity == [i \in 1..NumPagesGrouped |-> i - 1]
DistinctTypes == {GroupTypeAt(i) : i \in 0..NumPagesGrouped - 1}
FirstIndexOf(t) ==
  CHOOSE i \in 0..NumPagesGrouped - 1 :
     GroupTypeAt(i) = t /\ \A j \in 0..i - 1 : GroupTypeAt(j) # t

\* C4 as stated: the groups are the maximal runs (one group per run, so as
\* many groups as runs), and the spans of the groups concatenated in output
\* order are 0..N-1 in order.
C4_GroupsAreMaximalRuns ==
  gState = "returned" =>
     /\ Len(gGroups) = Cardinality(RunStarts)
     /\ \A g \in 1..Len(gGroups) :
           Len(gGroups[g].spans) = 1 /\ IsMaximalRun(gGroups[g].spans[1], gGroups[g].doc_type)
     /\ flatten_spans(AllSpans) = Identity

\* C4 (amended): the spans, not the groups, are the maximal runs. Every span
\* is a maximal run of its group's type and there are as many spans as runs;
\* the runs of one type are the spans of one group, in ascending order;
\* there is one group per distinct type, in first-appearance order; every
\* index 0..N-1 is in exactly one span; and where no type reappears the
\* concatenated spans are 0..N-1 in order.
C4_SpansAreMaximalRuns ==
  gState = "returned" =>
     /\ Len(AllSpans) = Cardinality(RunStarts)
     /\ \A g \in 1..Len(gGroups) :
           /\ \A k \in 1..Len(gGroups[g].spans) :
                 IsMaximalRun(gGroups[g].spans[k], gGroups[g].doc_type)
           /\ \A k \in 1..Len(gGroups[g].spans) - 1 :
                 gGroups[g].spans[k][1] < gGroups[g].spans[k + 1][1]
     /\ {gGroups[g].doc_type : g \in 1..Len(gGroups)} = DistinctTypes
     /\ Len(gGroups) = Cardinality(DistinctTypes)
     /\ \A g \in 1..Len(gGroups) - 1 :
           FirstIndexOf(gGroups[g].doc_type) < FirstIndexOf(gGroups[g + 1].doc_type)
     /\ Len(flatten_spans(AllSpans)) = NumPagesGrouped
     /\ {flatten_spans(AllSpans)[j] : j \in 1..NumPagesGrouped} = 0..NumPagesGrouped - 1
     /\ (Cardinality(RunStarts) = Cardinality(DistinctTypes)) =>
           flatten_spans(AllSpans) = Identity

\* The sequence TaxInvoice, EWayBill, TaxInvoice has been grouped: two
\* groups, the first with the spans [0] and [2].
C4_Witness ==
  /\ gState = "returned"
  /\ Len(gPages) = 3
  /\ GroupTypeAt(0) = "TaxInvoice" /\ GroupTypeAt(1) = "EWayBill"
  /\ GroupTypeAt(2) = "TaxInvoice"
  /\ gGroups = <<[doc_type |-> "TaxInvoice", spans |-> <<(<<0>>), (<<2>>)>>],
                 [doc_type |-> "EWayBill", spans |-> <<(<<1>>)>>]>>

\* ======================================================== claims: merge
\* The values page after page (in pages_flat order) of key k, over the pages
\* whose record has the key.
RECURSIVE KeyValues(_, _)
KeyValues(k, i) ==
  IF i > Len(mFlat) THEN <<>>
  ELSE LET f == mData[mFlat[i] + 1].f IN
       (IF k \in DOMAIN f THEN <<f[k]>> ELSE <<>>) \o KeyValues(k, i + 1)

\* The reference operator of the claim on an accumulated value and the next
\* page's value of the same field.
RefStep(accv, v) ==
  CASE accv.t = "list" /\ v.t = "list" -> Lst(accv.l \o v.l)
    [] ~(accv.t = "list" /\ v.t = "list") /\ accv = Null /\ v # Null -> v
    [] OTHER -> accv
RECURSIVE RefFold(_, _, _)
RefFold(vals, i, accv) ==
  IF i > Len(vals) THEN accv ELSE RefFold(vals, i + 1, RefStep(accv, vals[i]))
RefValue(vals) == RefFold(vals, 2, vals[1])

Fields(d) == DOMAIN d \ {"pages_used"}
OneField(k, v) == Extraction("object", [x \in {k} |-> v])

\* C5: field by field, pages in ascending order, the merged record is the
\* reference operator's: absent takes the page's value, two lists are
\* concatenated, null is replaced by a non-null value, anything else keeps
\* the first-seen value; with the three examples of the claim.
C5_MergeIsReference ==
  mState = "returned" =>
     /\ Fields(mMerged) = {k \in MergeKeys : KeyValues(k, 1) # <<>>}
     /\ \A k \in Fields(mMerged) : mMerged[k] = RefValue(KeyValues(k, 1))
     /\ (mData = <<OneField("a", Num(100)), OneField("a", Null)>>)
           => mMerged["a"] = Num(100)
     /\ (mData = <<OneField("items", Lst(<<1>>)), OneField("items", Lst(<<2>>))>>)
           => mMerged["items"] = Lst(<<1, 2>>)
     /\ (mData = <<OneField("a", Null), OneField("a", Num(500))>>)
           => mMerged["a"] = Num(500)

\* {a: null} then {a: 5} has been merged to a = 5.
C5_Witness ==
  /\ mState = "returned"
  /\ mData = <<OneField("a", Null), OneField("a", Num(500))>>
  /\ mMerged["a"] = Num(500)

\* ============================================== claims: the /ocr answer
\* C11: /ocr always answers a complete result: whatever the remote service
\* did on any page (failures, or any parsable JSON value as a reply), the
\* grouping and the merge do not raise and the answer carries
\* num_pages = N and exactly N page results in input order.
C11_BatchAlwaysCompletes ==
  (endpoint = "ocr" /\ spc = "closed") =>
    /\ response.status = 200
    /\ response.num_pages = num_pages
    /\ Len(response.page_results) = num_pages
    /\ \A p \in TaskPages : response.page_results[p + 1] = result[p]

\* C12: the i-th PageResult of the thread-based workflow has page_index = i,
\* whatever page_index the classification reply carries.
C12_PageIndexAligned ==
  (nPath = "thread" /\ nState = "returned") => nOut.page_index = nIndex

\* ============================================ claims: the stream routes
IsPageEvent(e) == e.type \in {"page_result", "page_error"}
EventsOf(P(_)) == SelectSeq(events, P)
IsProcessEvent(e) == e.type = "progress" /\ e.stage = "process"

\* C13: in /ocr-stream a page whose workflow failed produces a page_error
\* event carrying its index, and the stream goes on to the remaining pages
\* and the complete event.
C13_FailedPageEmitsPageError ==
  (endpoint = "ocr-stream" /\ spc = "closed" /\ decodable) =>
    /\ \A p \in TaskPages :
         failed[p] => \E i \in 1..Len(events) :
                        events[i].type = "page_error" /\ events[i].page_index = p
    /\ Len(EventsOf(IsPageEvent)) = num_pages
    /\ \E i \in 1..Len(events) : events[i].type = "complete"

\* C14: in both stream routes a stream that has ended and emitted a
\* complete or an error event emitted the [DONE] sentinel right after it,
\* and nothing after the sentinel.
C14_SentinelFollowsTerminalEvent ==
  (endpoint \in {"ocr-stream", "ocr/stream"} /\ spc = "closed") =>
    \A i \in 1..Len(events) :
      /\ events[i].type \in {"complete", "error"} =>
           i < Len(events) /\ events[i + 1] = Sentinel
      /\ events[i] = Sentinel => i = Len(events)

\* C15: /ocr-stream emits the page events in the order in which the page
\* tasks put their outcome on results_queue, whatever the page indices:
\* the pages of the events emitted so far are a prefix of the arrivals and
\* the queue holds the rest.
PagesOf(seq) == [i \in 1..Len(seq) |-> seq[i].page_index]
C15_EventsInArrivalOrder ==
  endpoint = "ocr-stream" =>
    PagesOf(EventsOf(IsPageEvent)) \o PagesOf(results_queue) = arrivals

\* Page 1 arrived before page 0 while page 0 was still at work, and both
\* events are out.
C15_Witness ==
  /\ endpoint = "ocr-stream"
  /\ arrivals = <<1, 0>>
  /\ PagesOf(EventsOf(IsPageEvent)) = <<1, 0>>

\* C16: /ocr/stream emits the per-page events in page order 0, 1, ..., and
\* the task of a page begins only after every earlier page's task has
\* returned, with the deletion of its thread started, and its event is out.
C16_SequentialOrder ==
  endpoint = "ocr/stream" =>
    /\ \A i \in 1..Len(EventsOf(IsProcessEvent)) :
         EventsOf(IsProcessEvent)[i].page_index = i - 1
    /\ \A p \in TaskPages : pc[p] # "start" =>
         /\ Len(EventsOf(IsProcessEvent)) >= p
         /\ \A q \in 0..p - 1 :
              /\ pc[q] = "done" /\ ret[q] # "-"
              /\ thread_id[q] # 0 => deleteCalls[q] = 1

\* Two pages went through their threads one after the other and both
\* events are out.
C16_Witness ==
  /\ endpoint = "ocr/stream" /\ num_pages = 2
  /\ Len(EventsOf(IsProcessEvent)) = 2
  /\ thread_id[0] # 0 /\ thread_id[1] # 0

\* C19: when the document cannot be opened, on every route: no page task
\* begins, no thread is created, no page result or page event is produced,
\* and the caller gets one failure: the 400 answer of /ocr and /ocr-stream,
\* or the one error event of /ocr/stream.
C19_UndecodableAborts ==
  ~decodable =>
    /\ \A p \in Pages : pc[p] = "start" /\ thread_id[p] = 0 /\ result[p] = NoResult
    /\ FILES_BY_THREAD = EmptyDict
    /\ \A i \in 1..Len(events) :
         events[i].type \in {"status", "error"}
    /\ spc = "closed" =>
         IF endpoint = "ocr/stream"
         THEN /\ response = NoResponse
              /\ Len(EventsOf(LAMBDA e : e.type = "error")) = 1
         ELSE /\ response.status = 400
              /\ events = <<>>

\* An undecodable upload was refused on the sequential stream route.
C19_Witness ==
  /\ ~decodable /\ spc = "closed" /\ endpoint = "ocr/stream"
  /\ events = <<Status("Processing started..."), StreamError>>

\* ================================================ claims: reply parsing
\* The chain as specified: the raw text; the text without the whitespace
\* and byte-order marks before it and the whitespace after it; the first
\* fenced block; failure.
RefStrip(t) == rstrip(lstrip(t, {"ws", "bom"}), {"ws"})
Fences(t) == {i \in 1..Len(t) : t[i] = "fence"}
RefFirstBlock(t) ==
  IF Cardinality(Fences(t)) < 2 THEN <<>>
  ELSE LET i == CHOOSE x \in Fences(t) : \A y \in Fences(t) : x <= y
           rest == Fences(t) \ {i}
           m == CHOOSE x \in rest : \A y \in rest : x <= y
       IN  SubSeq(t, i + 1, m - 1)
RefParse(t) ==
  IF json_loads(t) # "JSONDecodeError" THEN Parsed(json_loads(t), 1)
  ELSE IF json_loads(RefStrip(t)) # "JSONDecodeError" THEN Parsed(json_loads(RefStrip(t)), 2)
  ELSE IF json_loads(RefFirstBlock(t)) # "JSONDecodeError"
       THEN Parsed(json_loads(RefFirstBlock(t)), 3)
  ELSE Parsed("malformed", 4)

\* C17: a reply text is parsed by the ordered chain raw text, stripped
\* text, first fenced block, and the first stage that succeeds gives the
\* result and ends the chain; a text no stage parses is a malformed-reply
\* failure of the call, which is not retried and not followed by a backoff
\* wait.
C17_ParseChain ==
  pState \in {"returned", "raised", "retrying"} =>
    /\ pStage = RefParse(pText).stage
    /\ RefParse(pText).value # "malformed" =>
         pState = "returned" /\ pValue = RefParse(pText).value
    /\ RefParse(pText).value = "malformed" =>
         pState = "raised" /\ pWaits = <<>>

\* ================================================== claims: run polling
\* C18: once a status check answers failed, cancelled or expired, the
\* polling of the run ends at once with an error: that answer is the last
\* status request of the run and no backoff wait follows it.
TerminalFailures == {"failed", "cancelled", "expired"}
C18_TerminalStatusEndsPolling ==
  call = "status_check" =>
    \A i \in 1..Len(log) :
      (log[i].code = 200 /\ log[i].run \in TerminalFailures) =>
        /\ i = Len(log)
        /\ cstate = "raised"
        /\ Len(waits) <= i - 1


\* ---------------------------------------------------------------------
\* The order of the remote operations of one page
\* ---------------------------------------------------------------------
WorkflowOrder ==
  <<"start", "create", "gate", "upload", "send_cls", "run_cls", "poll_cls",
    "fetch_cls", "send_ext", "run_ext", "poll_ext", "fetch_ext", "del_files",
    "del_thread", "done">>
WorkflowStep(l) ==
  IF \E i \in 1..Len(WorkflowOrder) : WorkflowOrder[i] = l
  THEN CHOOSE i \in 1..Len(WorkflowOrder) : WorkflowOrder[i] = l
  ELSE 0
ClassificationTurn == {"send_cls", "run_cls", "poll_cls", "fetch_cls"}
ExtractionTurn == {"send_ext", "run_ext", "poll_ext", "fetch_ext"}
Teardown == {"del_files", "del_thread", "done"}
UploadsOf(p) ==
  IF thread_id[p] \in DOMAIN FILES_BY_THREAD
  THEN Len(FILES_BY_THREAD[thread_id[p]])
  ELSE 0

\* C20: within one page the remote operations occur in the fixed order
\* create session, classification turn (the image uploaded exactly once,
\* before the message), run, poll, parse, extraction turn (no image), run,
\* poll, parse, delete session. Every step of a page moves to the next
\* operation of that order or, on a failure (or without assistants, before
\* any remote operation), straight to the teardown; the
\* extraction turn is only entered from the parsed classification reply, and
\* a page that failed is in its teardown, so no later turn or run is created.
C20_FixedWorkflowOrder ==
  /\ [](\A p \in Pages :
          /\ WorkflowStep(pc[p]) # 0
          /\ UploadsOf(p) <= 1
          /\ pc[p] \in ClassificationTurn \cup ExtractionTurn => UploadsOf(p) = 1
          /\ pc[p] \in ExtractionTurn => classification_result[p] # NoReply
          /\ failed[p] => pc[p] \in Teardown)
  /\ [][\A p \in Pages : pc'[p] # pc[p] =>
          /\ \/ WorkflowStep(pc'[p]) = WorkflowStep(pc[p]) + 1
             \/ /\ pc'[p] \in {"del_files", "done"}
                /\ pc[p] \notin Teardown
                /\ failed'[p] \/ (pc[p] = "start" /\ ~assistants)
          /\ pc'[p] = "send_ext" =>
               pc[p] = "fetch_cls" /\ classification_result'[p] # NoReply
          /\ UploadsOf(p)' # UploadsOf(p) =>
               pc[p] \in {"upload", "del_files"}]_vars

\* a page is in its teardown after both turns, with its one image deleted,
\* while another page failed after its session was created and went no
\* further than the teardown
C20_Witness ==
  \E p, q \in Pages :
    /\ pc[p] = "del_thread" /\ ~failed[p] /\ extraction[p] # NoExtraction
    /\ pc[q] \in Teardown /\ failed[q] /\ thread_id[q] # 0


\* ---------------------------------------------------------------------
\* The gate and the remote calls
\* ---------------------------------------------------------------------
BetweenTurns == {p \in Pages : pc[p] = "send_ext"}
InsideATurn == InsideGate \ BetweenTurns

\* C21: the classification turn and the extraction turn are gated one by
\* one: a page whose classification turn is done and whose extraction turn
\* is not yet submitted holds no slot of the gate, so a page waiting at the
\* gate is admitted whenever fewer than MAX_CONCURRENCY pages are inside a
\* turn.
C21_TurnsGatedIndividually ==
  /\ sem = MAX_CONCURRENCY - Cardinality(InsideATurn)
  /\ \A q \in Pages :
       (pc[q] = "gate" /\ Cardinality(InsideATurn) < MAX_CONCURRENCY) =>
         ENABLED Acquire(q)

\* Program positions at which a page task has a request to the remote
\* service under way: thread creation, the upload, the message posts, the
\* run creations, the status checks, the message fetches, the file deletions
\* and the thread deletion.
RemoteCallPcs == {"create"} \cup GatedPcs \cup {"del_files", "del_thread"}
InFlight == {p \in Pages : pc[p] \in RemoteCallPcs}

\* C22: at most MAX_CONCURRENCY = 2 remote calls of any kind are in flight
\* in any state, and every page with a remote call under way holds a slot of
\* the gate.
C22_RemoteCallsCapped ==
  /\ Cardinality(InFlight) <= MAX_CONCURRENCY
  /\ InFlight \subseteq InsideGate


\* ---------------------------------------------------------------------
\* The retry policy over all calls of the page workflow
\* ---------------------------------------------------------------------
WorkflowCalls == {"create_thread", "upload_file", "send_message", "run_create",
                  "status_check", "fetch_messages", "delete_file", "delete_thread"}

\* C24: the retry policy is the same for every network call of the page
\* workflow: while a call (thread creation, image upload, message post, run
\* creation, status check, message fetch, file deletion, thread deletion)
\* meets transient failures only, it goes on to RETRY_MAX = 4 attempts in
\* all, with the waits 1.25, 2.5 and 5.0 seconds between them.
C24_UniformRetry ==
  (call \in WorkflowCalls /\ AllTransient(log)) =>
     /\ Len(log) <= RETRY_MAX
     /\ waits = SubSeq(RetryLawDelays, 1, Len(waits))
     /\ cstate = "calling" => Len(waits) = Len(log)
     /\ cstate # "calling" =>
           /\ Len(log) = RETRY_MAX
           /\ waits = RetryLawDelays


\* ---------------------------------------------------------------------
\* The delays of the completion polling
\* ---------------------------------------------------------------------
\* min(0.1 * 1.5^k, 2.0) seconds, in ticks
PollLaw(k) ==
  LET grown == (POLL_START_DELAY * (3 ^ k)) \div (2 ^ k)
  IN  IF grown < 2 * TicksPerSecond THEN grown ELSE 2 * TicksPerSecond

\* C25: while one run is polled, the wait taken after the k-th pending
\* status (k = 0, 1, 2, ...) is min(0.1 * 1.5^k, 2.0) seconds: the waits
\* start at 0.1 s, never decrease and never exceed 2.0 s, and the delay for
\* the next pending status depends on the number of pending statuses seen
\* only, whatever HTTP-level retries the status checks went through.
C25_PollDelays ==
  call = "status_check" =>
    /\ Len(pollWaits) = polls
    /\ \A k \in 1..Len(pollWaits) : pollWaits[k] = PollLaw(k - 1)
    /\ \A k \in 2..Len(pollWaits) : pollWaits[k - 1] <= pollWaits[k]
    /\ \A k \in 1..Len(pollWaits) : pollWaits[k] <= 2 * TicksPerSecond
    /\ Len(pollWaits) > 0 => pollWaits[1] = TicksPerSecond \div 10
    /\ delay = PollLaw(polls)

\* Nine pending statuses were seen, the ninth wait is the first capped one,
\* and the status check after it is in its third attempt after two
\* transient failures.
C25_Witness ==
  /\ call = "status_check"
  /\ Len(pollWaits) = 9
  /\ pollWaits[8] < 2 * TicksPerSecond
  /\ pollWaits[9] = 2 * TicksPerSecond
  /\ attempt = 2 /\ Len(waits) = 2 /\ cstate = "calling"


\* ---------------------------------------------------------------------
\* Extraction records
\* ---------------------------------------------------------------------
\* C27: pages_used is stamped only if it is absent: when the parsed reply is
\* an object that has a pages_used field, the returned record keeps the
\* reply's value; the page indices of the call are put there only when the
\* reply has no such field.
C27_PagesUsedOnlyIfAbsent ==
  (xState = "returned" /\ xReply.kind = "object"
     /\ (xPath = "thread" \/ xSchema)) =>
    /\ xOut.kind = "object"
    /\ "pages_used" \in DOMAIN xOut.f
    /\ xOut.f["pages_used"] =
         IF "pages_used" \in DOMAIN xReply.f THEN xReply.f["pages_used"]
         ELSE Lst(xPages)

\* C28: when no schema is registered for the doc_type, the extraction record
\* is a stub whose only field is pages_used; no field of a remote reply
\* appears in it.
C28_NoSchemaGivesStub ==
  (xState = "returned" /\ ~xSchema) =>
    /\ xOut.kind = "object"
    /\ DOMAIN xOut.f = {"pages_used"}


\* ---------------------------------------------------------------------
\* The registry of uploaded files
\* ---------------------------------------------------------------------
HoldsUpload == ClassificationTurn \cup ExtractionTurn \cup {"del_files"}

\* C30: a file id is put in FILES_BY_THREAD under its thread when, and only
\* when, its upload succeeded; the entry of a thread is removed by the file
\* deletions of that thread's teardown and by nothing else; a page task that
\* has returned, normally or after a failure, has no entry left, and once
\* every page task has finished the registry is empty.
C30_RegistryCleanedUp ==
  /\ [](/\ \A p \in Pages :
             /\ pc[p] = "done" => thread_id[p] \notin DOMAIN FILES_BY_THREAD
             /\ pc[p] \in ClassificationTurn \cup ExtractionTurn =>
                  /\ thread_id[p] \in DOMAIN FILES_BY_THREAD
                  /\ FILES_BY_THREAD[thread_id[p]] = <<p + 1>>
        /\ \A t \in DOMAIN FILES_BY_THREAD :
             \E p \in Pages : thread_id[p] = t /\ pc[p] \in HoldsUpload
        /\ (\A p \in Pages : pc[p] = "done") => FILES_BY_THREAD = EmptyDict)
  /\ [][FILES_BY_THREAD' # FILES_BY_THREAD =>
          \E p \in Pages :
            \/ /\ pc[p] = "upload" /\ pc'[p] = "send_cls"
               /\ thread_id[p] \notin DOMAIN FILES_BY_THREAD
               /\ DOMAIN FILES_BY_THREAD' = DOMAIN FILES_BY_THREAD \cup {thread_id[p]}
               /\ \A t \in DOMAIN FILES_BY_THREAD : FILES_BY_THREAD'[t] = FILES_BY_THREAD[t]
            \/ /\ pc[p] = "del_files" /\ pc'[p] = "del_thread"
               /\ DOMAIN FILES_BY_THREAD' = DOMAIN FILES_BY_THREAD \ {thread_id[p]}
               /\ \A t \in DOMAIN FILES_BY_THREAD' : FILES_BY_THREAD'[t] = FILES_BY_THREAD[t]]_vars

\* One page has returned normally and its entry is gone, while a page that
\* failed after its upload is about to delete its file.
C30_Witness ==
  \E p, q \in Pages :
    /\ pc[p] = "done" /\ ~failed[p] /\ thread_id[p] # 0
    /\ thread_id[p] \notin DOMAIN FILES_BY_THREAD
    /\ pc[q] = "del_files" /\ failed[q]
    /\ thread_id[q] \in DOMAIN FILES_BY_THREAD


\* ---------------------------------------------------------------------
\* Failures of the teardown
\* ---------------------------------------------------------------------
\* C29: whatever the teardown meets (a file deletion that fails, a thread
\* deletion answered with transient failures on all 4 attempts, with a
\* non-transient status, or with transport exceptions), delete_thread
\* returns normally and process_page_with_thread returns the pair it had
\* ready before the teardown, the same as when the teardown succeeds.
C29_TeardownFailuresInvisible ==
  /\ [](/\ cstate # "raised"
        /\ ret[0] = "return"
        /\ pc[0] = "done" => cstate = "returned")
  /\ [][/\ result' = result
        /\ extraction' = extraction
        /\ ret' = ret
        /\ failed' = failed]_vars

\* The file deletion failed, the thread deletion met a transient failure or
\* a transport exception on each of its 4 attempts, and the task has
\* returned a normal pair.
C29_Witness ==
  /\ pc[0] = "done" /\ ret[0] = "return" /\ ~failed[0]
  /\ result[0] # DegradedResult(0)
  /\ call = "delete_thread" /\ Len(log) = RETRY_MAX /\ AllTransient(log)
  /\ IsException(log[RETRY_MAX])
  /\ waits = RetryLawDelays
  /\ warnings > RETRY_MAX


\* ---------------------------------------------------------------------
\* Termination
\* ---------------------------------------------------------------------
Pending == [code |-> 200, run |-> "queued"]
RequestOver ==
  /\ sem = MAX_CONCURRENCY
  /\ decodable =>
       /\ \A p \in TaskPages : pc[p] = "done" /\ ret[p] = "return"
       /\ endpoint = "ocr" => response # NoResponse
       /\ endpoint = "ocr-stream" => events[Len(events)].type = "complete"

C31_MergeLeavesPagesAlone ==
  mState = "returned" =>
    /\ mAfter = mData
    /\ \A k \in DOMAIN mMerged \ {"pages_used"} :
         mMerged[k].t = "list" => k \notin DOMAIN list_owner(mFlat, mData)

\* ================================================ claims: the pipeline
\* The pages of the document classified as d, in ascending order.
PagesOfType(d) ==
  SelectSeq([i \in 1..Len(page_results) |-> i - 1],
            LAMBDA p : page_results[p + 1].doc_type = d)
IsAscending(seq) == \A i \in 1..Len(seq) - 1 : seq[i] < seq[i + 1]

\* C32: the pages_used of every emitted group is the flattened list of the
\* group's spans, and that list is the group's page indices in ascending
\* order, whatever the per-page records hold; TaxInvoice, TaxInvoice,
\* EWayBill gives TaxInvoice [[0,1]] with pages_used [0,1], then EWayBill
\* [[2]].
C32_PagesUsedIsFlattenedSpan ==
  plState = "returned" =>
    /\ \A g \in 1..Len(grouped_results) :
         LET pages_flat == flatten_spans(grouped_results[g].page_spans)
         IN  /\ grouped_results[g].data["pages_used"] = Lst(pages_flat)
             /\ IsAscending(pages_flat)
             /\ pages_flat = PagesOfType(grouped_results[g].doc_type)
    /\ [i \in 1..Len(page_results) |-> page_results[i].doc_type]
         = <<"TaxInvoice", "TaxInvoice", "EWayBill">>
       => /\ Len(grouped_results) = 2
          /\ grouped_results[1].doc_type = "TaxInvoice"
          /\ grouped_results[1].page_spans = <<(<<0, 1>>)>>
          /\ grouped_results[1].data["pages_used"] = Lst(<<0, 1>>)
          /\ grouped_results[2].doc_type = "EWayBill"
          /\ grouped_results[2].page_spans = <<(<<2>>)>>

PipelineTypeAt(i) == page_results[i + 1].doc_type
PipelineRunStarts ==
  {i \in 0..Len(page_results) - 1 : i = 0 \/ PipelineTypeAt(i) # PipelineTypeAt(i - 1)}
\* span is one maximal run of pages classified as d
IsPipelineRun(span, d) ==
  /\ Len(span) >= 1
  /\ \A j \in 1..Len(span) :
        /\ span[j] \in 0..Len(page_results) - 1
        /\ span[j] = span[1] + j - 1
        /\ PipelineTypeAt(span[j]) = d
  /\ span[1] \in PipelineRunStarts
  /\ span[Len(span)] + 1 < Len(page_results) => (span[Len(span)] + 1) \in PipelineRunStarts
\* the places <<group, span, position>> at which index i stands
PlacesOf(i) ==
  {pl \in (1..Len(grouped_results)) \X (1..Len(page_results)) \X (1..Len(page_results)) :
     /\ pl[2] <= Len(grouped_results[pl[1]].page_spans)
     /\ pl[3] <= Len(grouped_results[pl[1]].page_spans[pl[2]])
     /\ grouped_results[pl[1]].page_spans[pl[2]][pl[3]] = i}

\* C35: there is one group per distinct doc_type; its spans are the maximal
\* runs of that type, one span per run, in ascending order; every page index
\* stands in exactly one span; and the group's one record is merged from all
\* of its spans.
C35_OneGroupPerType ==
  plState = "returned" =>
    /\ \A g, h \in 1..Len(grouped_results) :
         grouped_results[g].doc_type = grouped_results[h].doc_type => g = h
    /\ {grouped_results[g].doc_type : g \in 1..Len(grouped_results)}
         = {PipelineTypeAt(i) : i \in 0..Len(page_results) - 1}
    /\ \A g \in 1..Len(grouped_results) :
         LET spans == grouped_results[g].page_spans IN
         /\ \A k \in 1..Len(spans) : IsPipelineRun(spans[k], grouped_results[g].doc_type)
         /\ \A k \in 1..Len(spans) - 1 : spans[k][1] < spans[k + 1][1]
         /\ grouped_results[g].data["pages_used"] = Lst(flatten_spans(spans))
    /\ \A i \in 0..Len(page_results) - 1 : Cardinality(PlacesOf(i)) = 1

\* ================================================== claims: rendering
DpiOrder == <<200, 140, 110, 92>>
\* the resolutions are tried in the order 200, 140, 110, 92 and every one
\* before the last tried gave a raster over the limit
TriedInOrder ==
  /\ Len(tried) <= Len(DpiOrder)
  /\ \A i \in 1..Len(tried) : tried[i] = DpiOrder[i]
  /\ \A i \in 1..Len(tried) - 1 : sizes[tried[i]] > 15000000

\* C33: rendering tries 200, 140, 110, 92 DPI in this order, stops at the
\* first resolution whose raster is at most 15,000,000 bytes, and the raster
\* it returns is never larger than that, whatever the page.
C33_RasterWithinCeiling ==
  /\ TriedInOrder
  /\ rState = "returned" =>
       /\ tried # <<>> /\ data_len = sizes[tried[Len(tried)]]
       /\ data_len <= 15000000

\* ================================================== claims: the registry
\* FILES_BY_THREAD.get(t, []) before and after a step
EntryOf(files, t) == IF t \in DOMAIN files THEN files[t] ELSE <<>>
\* page p alone takes the step
StepOf(p) == pc'[p] # pc[p] /\ \A q \in Pages \ {p} : pc'[q] = pc[q]

\* C34: an entry of the registry is inserted, extended or removed only by a
\* step of the page task that created the entry's session, and it lists only
\* the files that task uploaded, so a task deletes no other task's files.
C34_RegistryOwnership ==
  /\ [](\A t \in DOMAIN FILES_BY_THREAD :
          \E p \in Pages :
             /\ thread_id[p] = t
             /\ \A q \in Pages \ {p} : thread_id[q] # t
             /\ \A i \in 1..Len(FILES_BY_THREAD[t]) : FILES_BY_THREAD[t][i] = p + 1)
  /\ [][\A t \in DOMAIN FILES_BY_THREAD \cup DOMAIN FILES_BY_THREAD' :
          EntryOf(FILES_BY_THREAD', t) # EntryOf(FILES_BY_THREAD, t)
             => \E p \in Pages : thread_id[p] = t /\ StepOf(p)]_vars
\* page p has removed its entry while page q, inside the gate, still has its
\* own
C34_Witness ==
  \E p, q \in Pages :
     /\ p # q
     /\ pc[p] = "del_thread" /\ thread_id[p] \notin DOMAIN FILES_BY_THREAD
     /\ pc[q] \in {"send_cls", "run_cls", "poll_cls", "fetch_cls"}
     /\ thread_id[q] \in DOMAIN FILES_BY_THREAD
     /\ FILES_BY_THREAD[thread_id[q]] = <<q + 1>>

\* ---------------------------------------------------------------------
\* The statuses of the completion polling
\* ---------------------------------------------------------------------
FinalStatuses == {"completed", "failed", "cancelled", "expired"}

\* C36: a status check answered 200 with any status other than completed,
\* failed, cancelled or expired is a pending one: the poll delay is waited
\* and the status is asked for again with the retry counter back at zero.
\* Only an answer with one of the four statuses is handled otherwise.
C36_OnlyFinalStatusesEndPending ==
  [][call = "status_check" =>
       /\ polls' \in {polls, polls + 1}
       /\ polls' = polls + 1 =>
            /\ pollWaits' = Append(pollWaits, delay)
            /\ attempt' = 0 /\ log' = <<>> /\ waits' = <<>>
            /\ cstate' = "calling"
       /\ (log' # log /\ log' # <<>> /\ log'[Len(log')].code = 200) =>
            /\ log'[Len(log')].run \in FinalStatuses
            /\ polls' = polls
       /\ (log' # log /\ log' # <<>>) => log' = Append(log, log'[Len(log')])]_vars
\* Two pending statuses were waited for, and the status check after them has
\* failed once at the HTTP level: its retry counter stands at 1, not at the
\* count of all requests of the run.
C36_Witness ==
  /\ call = "status_check" /\ cstate = "calling"
  /\ polls = 2 /\ pollWaits = <<PollLaw(0), PollLaw(1)>>
  /\ attempt = 1 /\ log = <<Http(503)>> /\ waits = <<Backoff(0)>>

\* ---------------------------------------------------------------------
\* The slot of a page
\* ---------------------------------------------------------------------
HeldSlots == MAX_CONCURRENCY - sem

\* C37: a page takes one slot when it passes the gate, before its
\* classification turn, keeps it at every step up to its extraction reply
\* and gives it back when it leaves the gated steps, by the extraction reply
\* or by a failure at any of them; a page outside the gated steps changes no
\* slot. The slots held are those of the pages inside, between 0 and
\* MAX_CONCURRENCY, and none is held once every page task is done.
C37_SlotHeldAcrossBothTurns ==
  /\ [](/\ HeldSlots \in 0..MAX_CONCURRENCY
        /\ HeldSlots = Cardinality(InsideGate)
        /\ (\A p \in Pages : pc[p] = "done") => HeldSlots = 0)
  /\ [][\A p \in Pages : pc'[p] # pc[p] =>
          /\ pc[p] = "gate" => sem' = sem - 1 /\ pc'[p] = "upload"
          /\ (pc[p] \in GatedPcs /\ pc'[p] \in GatedPcs) => sem' = sem
          /\ (pc[p] \in GatedPcs /\ pc'[p] \notin GatedPcs) =>
               /\ sem' = sem + 1
               /\ pc[p] = "fetch_ext" \/ failed'[p]
          /\ pc[p] \notin UsePcs => sem' = sem]_vars
\* Every page task is done, one of them after a failure at a gated step and
\* one after both turns, and no slot is held.
C37_Witness ==
  /\ assistants
  /\ \A p \in Pages : pc[p] = "done"
  /\ \E p, q \in Pages :
       /\ failed[p] /\ thread_id[p] # 0
       /\ ~failed[q] /\ thread_id[q] # 0
  /\ HeldSlots = 0

\* ---------------------------------------------------------------------
\* The shape of the concurrent stream
\* ---------------------------------------------------------------------
PageEventsAt == {i \in 1..Len(events) : IsPageEvent(events[i])}
CompleteAt == {i \in 1..Len(events) : events[i].type = "complete"}

\* C38: the stream of /ocr-stream for a document of N pages is the start
\* event with total_pages = N, then the per-page events, one for each page
\* index 0..N-1, then one complete event: nothing precedes start, complete
\* comes only after all N page events and ends the stream, and its
\* processed_pages is the number of pages that produced a page result.
C38_ConcurrentStreamShape ==
  (endpoint = "ocr-stream" /\ decodable) =>
    /\ events # <<>> =>
         /\ events[1] = Event("start", "-", -1, NoResult, num_pages)
         /\ \A i \in 2..Len(events) : events[i].type \in {"page_result", "page_error", "complete"}
    /\ \A i, j \in PageEventsAt :
         /\ events[i].page_index \in 0..num_pages - 1
         /\ events[i].page_index = events[j].page_index => i = j
    /\ Cardinality(CompleteAt) <= 1
    /\ \A c \in CompleteAt :
         /\ c = Len(events) /\ c = num_pages + 2
         /\ PageEventsAt = 2..c - 1
         /\ events[c].count =
              Cardinality({p \in TaskPages : pc[p] = "done" /\ ret[p] = "return"})
         /\ events[c].count =
              Cardinality({i \in PageEventsAt : events[i].type = "page_result"})
    /\ spc = "closed" <=> CompleteAt # {}
\* The stream of a two-page document has ended; page 1 was reported before
\* page 0, and one of the two pages had failed in its workflow.
C38_Witness ==
  /\ endpoint = "ocr-stream" /\ decodable /\ spc = "closed"
  /\ num_pages = 2 /\ Len(events) = 4
  /\ events[2].page_index = 1 /\ events[3].page_index = 0
  /\ events[4].type = "complete" /\ events[4].count = 2
  /\ \E p \in TaskPages : failed[p]

\* ---------------------------------------------------------------------
\* A page task without assistants
\* ---------------------------------------------------------------------
\* C39: without a classifier or an extractor assistant a page task returns
\* the degraded pair in its first step: it has no session, it never stands
\* at the gate or at a remote call, no slot is taken, no deletion is started
\* and the registry stays as it was.
C39_NoAssistantsNoEffects ==
  ~assistants =>
    /\ \A p \in Pages :
         /\ pc[p] \in {"start", "done"}
         /\ thread_id[p] = 0
         /\ deleteCalls[p] = 0
         /\ ~failed[p]
         /\ pc[p] = "done" =>
              /\ ret[p] = "return"
              /\ result[p] = DegradedResult(p)
              /\ extraction[p] = EmptyExtraction
    /\ sem = MAX_CONCURRENCY
    /\ FILES_BY_THREAD = EmptyDict
\* Without assistants one page task has returned and another has not begun.
C39_Witness ==
  /\ ~assistants
  /\ \E p, q \in Pages :
       /\ pc[p] = "done" /\ result[p] = DegradedResult(p)
       /\ pc[q] = "start"
====
